---- MODULE Spec2Model ----
(***************************************************************************)
(* Retention and deletion-capture engine of the WhatsApp agent            *)
(* (src/unnamed/part_000; src/unnamed/part_002 carries the same handlers). *)
(*                                                                         *)
(* State: the time since readyTimestamp, messageCache (a JS Map, kept in   *)
(* insertion order), mediaTracker, processedRevokes, the pending           *)
(* setTimeout callbacks, the temp and saved directories, and one record    *)
(* per event handler invocation holding its position and its locals.       *)
(* A handler is cut at its awaits: every action is one synchronous         *)
(* stretch of code, and stretches of different handlers and timer          *)
(* callbacks interleave freely, as on the Node event loop.                 *)
(*                                                                         *)
(* Time is counted in abstract ticks.  The state keeps no absolute clock   *)
(* reading but the differences the code computes from one: the time left   *)
(* on every pending timer and Date.now() - readyTimestamp, the latter up   *)
(* to the grace period, beyond which the code cannot tell values apart.    *)
(* A timer callback runs at the tick it is due: the clock does not advance *)
(* past a due timer.                                                       *)
(*                                                                         *)
(* Spec is the program after ready; SpecGate the gates of the revoke       *)
(* handler; SpecCache, SpecTracker and SpecNotify take cacheMessage, the   *)
(* two attaches and sendPushNotification on their own; SpecViewOnce is the *)
(* message handler with its view-once capture, SpecRetention the same      *)
(* under fair timers, SpecShutdown the same with a shutdown signal;        *)
(* SpecViews is the revoke handler with any pair of views, SpecResolve     *)
(* the resolution of the reported fields, SpecExpiry the maps with their   *)
(* timers, SpecLive the program under fair timers and handlers;            *)
(* SpecUpload is uploadMediaToGridFS with its callers (src/index.js),      *)
(* SpecSaved the files of media/saved with the startup cleanup, SpecPoll   *)
(* the Telegram command loop, SpecSaveMedia saveMediaToTemp, and           *)
(* SpecVariants the outputs of the handlers of part_000 and part_002       *)
(* side by side.                                                           *)
(***************************************************************************)
EXTENDS Integers, Sequences, FiniteSets, TLC

\* ---------------------------------------------------------------- bounds
\* The three delays of the program, in ticks (the source has 30 s, 60 s and
\* 68 h); only their order matters to the handlers.
STARTUP_GRACE_MS == 1
REVOKE_DEDUP_TTL_MS == 2
DELETE_WINDOW_MS == 3
\* Capacity of messageCache (500 in the source), scaled to the id sets below.
MAX_CACHE_SIZE == 2
\* Revoke events the gates let through in one run.
MaxRevokes == 2
\* cacheMessage calls in one run of the cache-only specification.
MaxPuts == 4
\* Lookups and file operations that fail in one run.
MaxFaults == 1
\* MAX_MEDIA_SIZE_MB * 1024 * 1024 bytes (10 MiB in the source), scaled to
\* the media sizes below.
MAX_MEDIA_BYTES == 5
\* Telegram update ids in one run of the polling specification.
MaxUpdates == 5
\* Events handed to the two copies of the handlers.
MaxEvents == 2

MESSAGE_CACHE_TTL_MS == DELETE_WINDOW_MS

\* Date.now() at process start: an epoch time, far larger than any delay.
BootTime == STARTUP_GRACE_MS + REVOKE_DEDUP_TTL_MS + DELETE_WINDOW_MS

\* A time difference d, kept up to cap.
Saturate(d, cap) == IF d < cap THEN d ELSE cap

\* ------------------------------------------------------------ the inputs
\* Ids: the message ids revoke events name.  MsgIds: the ids whose message
\* events are delivered while the program runs (a revoke for another id is
\* the deletion of a message the program never saw).  CacheIds: the ids of
\* the cache-only specification.
Ids == {"m1", "m2"}
MsgIds == {"m1"}
CacheIds == {"m1", "m2", "m3"}
Bodies == {"", "hello"}

NoVal == "<undefined>"
EMPTY_MARK == "[<empty>]"
UNKNOWN == "Unknown"
UNKNOWN_TEXT == "[Unknown - message not cached]"
UNKNOWN_CHAT == "Unknown Chat"

\* The contact and the chat the protocol layer returns for a message.
ContactOf(id) ==
  IF id = "m1" THEN [name |-> "Alice", pushname |-> "Al", number |-> "111"]
               ELSE [name |-> NoVal, pushname |-> NoVal, number |-> "222"]

ChatOf(id) ==
  IF id = "m1" THEN [isGroup |-> FALSE, name |-> NoVal]
               ELSE [isGroup |-> TRUE, name |-> "Family"]

TimestampOf(id) == IF id = "m1" THEN 1 ELSE 2

\* ------------------------------------------------------- pure operators
\* a || b on strings: the empty string and undefined are falsy.
JsOr(a, b) == IF a = NoVal \/ a = "" THEN b ELSE a

\* contact.name || contact.pushname || contact.number
SenderNameOf(contact) == JsOr(JsOr(contact.name, contact.pushname), contact.number)

\* chat.isGroup ? `Group: ${chat.name}` : "Private Chat"
ChatLocationOf(chat) ==
  IF chat.isGroup
    THEN (IF chat.name = "Family" THEN "Group: Family" ELSE "Group: undefined")
    ELSE "Private Chat"

\* msg.body || "[<empty>]"
BodyOrMark(body) == JsOr(body, EMPTY_MARK)

\* The file names of an id's downloaded media and of its transcript.
MediaFile(id) == IF id = "m1" THEN "m1.jpg" ELSE "m2.jpg"
MsgFile(id) == IF id = "m1" THEN "m1.txt" ELSE "m2.txt"

\* ------------------------------------------------------------ the state
VARIABLES
  sinceReady,        \* Date.now() - readyTimestamp, up to STARTUP_GRACE_MS
  messageCache,      \* sequence of entries, oldest insertion first
  mediaTracker,      \* id -> record, NoRec when the key is absent
  processedRevokes,
  timers,            \* pending setTimeout callbacks
  tempFiles,         \* files in media/temp
  savedFiles,        \* files in media/saved
  readyTask,         \* position of the ready handler
  bodyOf,            \* id -> body of the message, once an event carried it
  msgTask,           \* id -> invocation of the message handler
  createTask,        \* id -> invocation of the message_create handler
  revokes,           \* revoke handler invocations in progress, by arrival
  shutdownTask,      \* position of the shutdown handler
  calls,             \* call site -> invocation of sendPushNotification
  resolved,          \* the field merge applied on its own: inputs and results
  uploads,           \* call site -> invocation of uploadMediaToGridFS and its caller
  lastSave,          \* the last call of saveMediaToTemp: inputs and result
  emitted,           \* source file -> what its handlers wrote and sent, by event
  telegram,          \* the command polling loop, and the same loop on the
                     \* authorized updates alone
  faults,            \* history: lookups and file operations that failed
  delivered,         \* history: id -> a revoke event has been delivered
  lastGate,          \* history: what the gates did with the last revoke
  sincePass,         \* history: id -> time since its last accepted revoke,
                     \*          up to REVOKE_DEDUP_TTL_MS (also when there is none)
  passes,            \* history: id -> revokes accepted
  persisted,         \* history: id -> DeletedRecords saved
  notified,          \* history: id -> notifications the revoke handler sent
  renames,           \* history: file -> renames from temp to saved
  reconciled,        \* history: id -> a reconciliation has run to its end
  putLog,            \* history: ids passed to cacheMessage, in call order
  evictLog,          \* history: ids evicted for capacity
  expireLog,         \* history: ids a cache expiry callback removed
  removeLog          \* history: ids removed by an explicit removal

\* The program's maps, files and timers.
store == <<sinceReady, messageCache, mediaTracker, processedRevokes, timers,
           tempFiles, savedFiles>>
\* The handler invocations.
\* The functions taken on their own.
apart == <<resolved, uploads, telegram, lastSave, emitted>>
others == <<shutdownTask, calls, apart>>
handlers == <<readyTask, bodyOf, msgTask, createTask, revokes, others>>
handlersButRevokes == <<readyTask, bodyOf, msgTask, createTask, others>>
\* The histories of the revoke handler and of the cache.
revokeLogs == <<delivered, lastGate, sincePass, passes, persisted, notified,
                renames, reconciled>>
cacheLogs == <<putLog, evictLog, expireLog, removeLog>>

vars == <<store, handlers, faults, revokeLogs, cacheLogs>>

\* All but the shutdown handler and the sendPushNotification invocations.
program == <<store, readyTask, bodyOf, msgTask, createTask, revokes, faults,
             revokeLogs, cacheLogs>>

\* ------------------------------------------------------- messageCache
CacheKeys(cache) == {cache[k].id : k \in 1..Len(cache)}

CacheHas(cache, id) == id \in CacheKeys(cache)

\* Map.prototype.get; NoEntry stands for undefined.
NoEntry ==
  [id |-> NoVal, body |-> NoVal, senderName |-> NoVal, senderNumber |-> NoVal,
   chatLocation |-> NoVal, timestamp |-> 0, msgFilePath |-> NoVal, age |-> 0]

CacheGet(cache, id) ==
  IF CacheHas(cache, id)
    THEN cache[CHOOSE k \in 1..Len(cache) : cache[k].id = id]
    ELSE NoEntry

\* Map.prototype.delete
CacheDeleteAny(cache, id) == IF cache = <<>> THEN cache ELSE Tail(cache)
CacheDelete(cache, id) == SelectSeq(cache, LAMBDA e : e.id # id)

\* Map.prototype.set: an existing key keeps its place, a new key goes last.
CacheSet(cache, entry) ==
  IF CacheHas(cache, entry.id)
    THEN [k \in 1..Len(cache) |-> IF cache[k].id = entry.id THEN entry ELSE cache[k]]
    ELSE Append(cache, entry)

\* The eviction test of cacheMessage.
CacheFullNoLimit(cache) == FALSE
CacheFull(cache) == Len(cache) >= MAX_CACHE_SIZE

\* The first half of cacheMessage: drop the oldest key when the cache is full.
CacheEvict(cache) == IF CacheFull(cache) THEN Tail(cache) ELSE cache

\* The timer cacheMessage schedules.
CacheTimerNone(id) == {}
CacheTimer(id) == {[kind |-> "cache", id |-> id, left |-> MESSAGE_CACHE_TTL_MS]}

\* cacheMessage(msgId, data): the cache afterwards.  The entry's age stands
\* for Date.now() - cachedAt.
cacheMessage(cache, id, data) ==
  CacheSet(CacheEvict(cache),
           [id |-> id, body |-> data.body, senderName |-> data.senderName,
            senderNumber |-> data.senderNumber, chatLocation |-> data.chatLocation,
            timestamp |-> data.timestamp, msgFilePath |-> data.msgFilePath,
            age |-> 0])

\* One call of cacheMessage on the state, with its history.
DoCacheMessage(id, data) ==
  /\ messageCache' = cacheMessage(messageCache, id, data)
  /\ putLog' = Append(putLog, id)
  /\ evictLog' = IF CacheFull(messageCache)
                   THEN evictLog \cup {Head(messageCache).id} ELSE evictLog

\* The snapshot the message handler and the message_create handler build.
SnapshotOf(id, body, msgFilePath) ==
  [body |-> BodyOrMark(body),
   senderName |-> SenderNameOf(ContactOf(id)),
   senderNumber |-> ContactOf(id).number,
   chatLocation |-> ChatLocationOf(ChatOf(id)),
   timestamp |-> TimestampOf(id),
   msgFilePath |-> msgFilePath]

\* --------------------------------------------------------- the timers
\* A pending timer is its callback's kind, the id it was set for and the
\* time left.  A handle kept in a tracker record names the id; NoHandle is a
\* handle that is undefined; NoRec a key that is absent from mediaTracker.
NoHandle == NoVal
NoRec == [filePath |-> NoVal, timeout |-> NoHandle,
          msgFilePath |-> NoVal, msgFileTimeout |-> NoHandle]

MediaTimer(id) == [kind |-> "media", id |-> id, left |-> DELETE_WINDOW_MS]
MsgFileTimer(id) == [kind |-> "msgfile", id |-> id, left |-> DELETE_WINDOW_MS]
DedupTimer(id) == {[kind |-> "dedup", id |-> id, left |-> REVOKE_DEDUP_TTL_MS]}

\* clearTimeout(handle); a handle that is undefined or has fired clears nothing.
ClearTimeout(ts, kind, handle) == {t \in ts : ~(t.kind = kind /\ t.id = handle)}

\* ------------------------------------------------- handler invocations
\* One record per invocation in progress: its position (pc), the event it
\* was called with, its locals, and what it has done so far.  The record of
\* an invocation that has returned is dropped.
NoNotif == [title |-> NoVal, where |-> NoVal, who |-> NoVal, number |-> NoVal,
            message |-> NoVal]
NoRecord == [where |-> NoVal, senderName |-> NoVal, senderNumber |-> NoVal,
             originalMessage |-> NoVal, sentTime |-> 0, mediaFilename |-> NoVal]

IdleMsg ==
  [pc |-> "idle", hasMedia |-> FALSE, viewOnce |-> FALSE, tracked |-> NoRec]
DoneMsg == [IdleMsg EXCEPT !.pc = "done"]

BaseRevoke ==
  [pc |-> "lookup", id |-> NoVal,
   hasBefore |-> FALSE, beforeId |-> NoVal, beforeBody |-> NoVal,
   early |-> FALSE, again |-> FALSE,
   msgId |-> NoVal, cached |-> NoEntry, tracked |-> NoRec,
   threw |-> NoVal, notif |-> NoNotif, record |-> NoRecord,
   fileOps |-> {}, mediaRef |-> NoVal, effects |-> <<>>,
   settled |-> FALSE, mediaInTemp |-> FALSE, second |-> FALSE]

NoGate == [id |-> NoVal, outcome |-> NoVal, again |-> FALSE]

\* The call sites of sendPushNotification whose invocations are followed,
\* and an invocation that has not started: attempts counts its fetch calls,
\* first is the outcome of the first of them.
CallSites == {"ready", "viewOnce", "revoke"}
IdleCall == [pc |-> "idle", attempts |-> 0, first |-> NoVal, logged |-> NoVal]
Files == {"m1.jpg", "m1.txt", "m2.jpg", "m2.txt"}
NoResolve == [called |-> FALSE]
\* The callers of uploadMediaToGridFS: the message handler, the view-once
\* capture and the revoke handler.
UploadSites == {"message", "viewOnce", "revoke"}
StorageOutcomes == {"within", "over", "fails"}
StreamOutcomes == {"finish", "error"}
NoSave == [called |-> FALSE]
\* The polling loop at start: telegramUpdateOffset, the clients started by
\* handleReauth and the notifications sent.
IdlePoll == [offset |-> 0, clients |-> 0, notes |-> <<>>]
IdleUpload == [pc |-> "idle", storage |-> NoVal, stream |-> NoVal,
               fileId |-> NoVal, rejected |-> FALSE, created |-> FALSE]

\* The two source files that hold the handlers.
Variants == {"part_000", "part_002"}

Init ==
  /\ sinceReady = Saturate(BootTime - 0, STARTUP_GRACE_MS)
  /\ messageCache = <<>>
  /\ mediaTracker = [i \in Ids |-> NoRec]
  /\ processedRevokes = {}
  /\ timers = {}
  /\ tempFiles = {}
  /\ savedFiles = {}
  /\ readyTask = "idle"
  /\ bodyOf = [i \in MsgIds |-> NoVal]
  /\ msgTask = [i \in MsgIds |-> IdleMsg]
  /\ createTask = [i \in MsgIds |-> "idle"]
  /\ revokes = <<>>
  /\ shutdownTask = "idle"
  /\ calls = [c \in CallSites |-> IdleCall]
  /\ resolved = NoResolve
  /\ uploads = [s \in UploadSites |-> IdleUpload]
  /\ telegram = [run |-> IdlePoll, alone |-> IdlePoll]
  /\ lastSave = NoSave
  /\ emitted = [v \in Variants |-> <<>>]
  /\ faults = 0
  /\ delivered = [i \in Ids |-> FALSE]
  /\ lastGate = NoGate
  /\ sincePass = [i \in Ids |-> REVOKE_DEDUP_TTL_MS]
  /\ passes = [i \in Ids |-> 0]
  /\ persisted = [i \in Ids |-> 0]
  /\ notified = [i \in Ids |-> 0]
  /\ renames = [f \in Files |-> 0]
  /\ reconciled = [i \in Ids |-> FALSE]
  /\ putLog = <<>>
  /\ evictLog = {}
  /\ expireLog = {}
  /\ removeLog = {}

\* One tick passes on every timer and on every time difference kept.
Elapse(ts) == {[t EXCEPT !.left = @ - 1] : t \in ts}
Older(cache) ==
  [k \in 1..Len(cache) |->
     [cache[k] EXCEPT !.age = Saturate(@ + 1, MESSAGE_CACHE_TTL_MS + 1)]]

\* The clock advances; a due timer callback runs first.
Tick ==
  /\ \A t \in timers : t.left > 0
  /\ timers' = Elapse(timers)
  /\ sinceReady' = Saturate(sinceReady + 1, STARTUP_GRACE_MS)
  /\ messageCache' = Older(messageCache)
  /\ sincePass' = [i \in Ids |-> Saturate(sincePass[i] + 1, REVOKE_DEDUP_TTL_MS)]
  /\ UNCHANGED <<mediaTracker, processedRevokes, tempFiles, savedFiles, handlers,
                 faults, delivered, lastGate, passes, persisted, notified, renames,
                 reconciled, cacheLogs>>

\* setTimeout(() => messageCache.delete(msgId), MESSAGE_CACHE_TTL_MS)
CacheExpire(t) ==
  /\ t \in timers /\ t.kind = "cache" /\ t.left = 0
  /\ timers' = timers \ {t}
  /\ messageCache' = CacheDelete(messageCache, t.id)
  /\ expireLog' = IF CacheHas(messageCache, t.id) THEN expireLog \cup {t.id} ELSE expireLog
  /\ UNCHANGED <<sinceReady, mediaTracker, processedRevokes, tempFiles,
                 savedFiles, handlers, faults, revokeLogs, putLog, evictLog,
                 removeLog>>

\* setTimeout(() => processedRevokes.delete(msgId_dedup), REVOKE_DEDUP_TTL_MS)
DedupExpire(t) ==
  /\ t \in timers /\ t.kind = "dedup" /\ t.left = 0
  /\ timers' = timers \ {t}
  /\ processedRevokes' = processedRevokes \ {t.id}
  /\ UNCHANGED <<sinceReady, messageCache, mediaTracker, tempFiles,
                 savedFiles, handlers, faults, revokeLogs, cacheLogs>>

\* if (fs.existsSync(path)) fs.unlinkSync(path)
UnlinkNever(tmp, file) == tmp
Unlink(tmp, file) == tmp \ {file}

\* The expiry callback of saveMediaToTemp: unlink the temp file if it is
\* still there, then drop the tracker record of the id.
MediaExpire(t) ==
  /\ t \in timers /\ t.kind = "media" /\ t.left = 0
  /\ timers' = timers \ {t}
  /\ tempFiles' = Unlink(tempFiles, MediaFile(t.id))
  /\ mediaTracker' = [mediaTracker EXCEPT ![t.id] = NoRec]
  /\ UNCHANGED <<sinceReady, messageCache, processedRevokes, savedFiles,
                 handlers, faults, revokeLogs, cacheLogs>>

\* The expiry callback of the transcript file: unlink it if still there.
MsgFileExpire(t) ==
  /\ t \in timers /\ t.kind = "msgfile" /\ t.left = 0
  /\ timers' = timers \ {t}
  /\ tempFiles' = Unlink(tempFiles, MsgFile(t.id))
  /\ UNCHANGED <<sinceReady, messageCache, mediaTracker, processedRevokes,
                 savedFiles, handlers, faults, revokeLogs, cacheLogs>>

\* Events of one message carry the same body.
BodyAgrees(id, body) == bodyOf[id] \in {NoVal, body}

\* The id a revoke event is about: the before-reference's when there is one.
RevokeMsgId(t) == IF t.hasBefore THEN t.beforeId ELSE t.id

\* A deletion postdates its message: no message event for an id arrives
\* after a revoke event for it.
NotYetRevoked(id) == ~delivered[id]

\* A step may fail at most one operation; the failures of a run are bounded.
Faulty(fault, applicable) ==
  /\ fault \in applicable \cup {"none"}
  /\ fault # "none" => faults < MaxFaults
  /\ faults' = IF fault = "none" THEN faults ELSE faults + 1

\* ------------------------------------------------------ the ready handler
\* client.on("ready"): the handler awaits the "connected" notification ...
ReadyArrive ==
  /\ readyTask = "idle"
  /\ readyTask' = "notify"
  /\ UNCHANGED <<store, others, bodyOf, msgTask, createTask, revokes, faults,
                 revokeLogs, cacheLogs>>

\* ... and sets readyTimestamp = Date.now() once the notification call has
\* returned: the difference Date.now() - readyTimestamp is 0 afterwards.
ReadyStamp(since) == 0

ReadyNotified ==
  /\ readyTask = "notify"
  /\ sinceReady' = ReadyStamp(sinceReady)
  /\ readyTask' = "done"
  /\ UNCHANGED <<others, messageCache, mediaTracker, processedRevokes, timers,
                 tempFiles, savedFiles, bodyOf, msgTask, createTask, revokes,
                 faults, revokeLogs, cacheLogs>>

\* ---------------------------------------------------- the message handler
\* The transcript slot the message handler writes into the tracker record:
\* a new record when the key is absent, else the fields of its own slot.
AttachTranscript(rec, id) ==
  IF rec = NoRec
    THEN [NoRec EXCEPT !.msgFilePath = MsgFile(id), !.msgFileTimeout = id]
    ELSE [rec EXCEPT !.msgFilePath = MsgFile(id), !.msgFileTimeout = id]

\* The rest of the message handler from the log append on: append to
\* messages_log.txt, write the transcript to temp and track it, cache the
\* snapshot.  trk, tmp and tms are the tracker, temp directory and timers as
\* the earlier part of the same stretch left them.
FinishMsg(id, trk, tmp, tms, fault) ==
  LET writeOk == fault # "write"
  IN
  /\ msgTask' = [msgTask EXCEPT ![id] = DoneMsg]
  /\ IF fault = "append"
       THEN /\ mediaTracker' = trk
            /\ tempFiles' = tmp
            /\ timers' = tms
            /\ UNCHANGED <<messageCache, putLog, evictLog>>
       ELSE /\ mediaTracker' = IF writeOk
                                 THEN [trk EXCEPT ![id] = AttachTranscript(trk[id], id)]
                                 ELSE trk
            /\ tempFiles' = IF writeOk THEN tmp \cup {MsgFile(id)} ELSE tmp
            /\ timers' = (IF writeOk THEN tms \cup {MsgFileTimer(id)} ELSE tms)
                           \cup CacheTimer(id)
            /\ DoCacheMessage(id, SnapshotOf(id, bodyOf[id], MsgFile(id)))

\* client.on("message"): the handler starts and awaits getChat / getContact.
MessageArrive(id, body, hasMedia, viewOnce) ==
  /\ msgTask[id].pc = "idle"
  /\ NotYetRevoked(id)
  /\ BodyAgrees(id, body)
  /\ viewOnce => hasMedia
  /\ bodyOf' = [bodyOf EXCEPT ![id] = body]
  /\ msgTask' = [msgTask EXCEPT ![id] =
                   [IdleMsg EXCEPT !.pc = "lookup", !.hasMedia = hasMedia,
                                   !.viewOnce = viewOnce]]
  /\ UNCHANGED <<store, readyTask, others, createTask, revokes, faults, revokeLogs,
                 cacheLogs>>

\* getChat and getContact have settled.  A rejection ends the handler in its
\* catch; with media the handler goes on to await the download.
MsgLookup(id, fault) ==
  /\ msgTask[id].pc = "lookup"
  /\ Faulty(fault, IF msgTask[id].hasMedia THEN {"lookup"}
                                           ELSE {"lookup", "append", "write"})
  /\ IF fault = "lookup"
       THEN /\ msgTask' = [msgTask EXCEPT ![id] = DoneMsg]
            /\ UNCHANGED <<messageCache, mediaTracker, timers, tempFiles, putLog,
                           evictLog>>
       ELSE IF msgTask[id].hasMedia
         THEN /\ msgTask' = [msgTask EXCEPT ![id].pc = "download"]
              /\ UNCHANGED <<messageCache, mediaTracker, timers, tempFiles, putLog,
                             evictLog>>
         ELSE FinishMsg(id, mediaTracker, tempFiles, timers, fault)
  /\ UNCHANGED <<sinceReady, processedRevokes, savedFiles, readyTask, others,
                 bodyOf, createTask, revokes, revokeLogs, expireLog, removeLog>>

\* The outcomes of msg.downloadMedia() and of the temp write in saveMediaToTemp.
DownloadOutcomes == {"ok", "absent", "toolarge", "writefail"}

\* The tracker record saveMediaToTemp sets for the id.
MediaRecord(id) ==
  [filePath |-> MediaFile(id), timeout |-> id,
   msgFilePath |-> NoVal, msgFileTimeout |-> NoHandle]

\* fs.copyFileSync(tracked.filePath, savedPath)
CopyToSavedNever(saved, file) == saved
CopyToSaved(saved, file) == saved \cup {file}

\* downloadMedia has settled: the rest of saveMediaToTemp, then the view-once
\* capture up to its notification, or else the rest of the handler.
MsgDownloaded(id, dl, fault) ==
  /\ msgTask[id].pc = "download"
  /\ dl \in DownloadOutcomes
  /\ LET tk == msgTask[id]
         tmp == IF dl = "ok" THEN tempFiles \cup {MediaFile(id)} ELSE tempFiles
         tms == IF dl = "ok" THEN timers \cup {MediaTimer(id)} ELSE timers
         trk == IF dl = "ok" THEN [mediaTracker EXCEPT ![id] = MediaRecord(id)]
                             ELSE mediaTracker
         tracked == trk[id]
         capture == tk.viewOnce /\ tracked # NoRec
         inTemp == capture /\ tracked.filePath \in tmp
     IN
     /\ Faulty(fault, IF inTemp THEN {"copy"}
                      ELSE IF capture THEN {} ELSE {"append", "write"})
     /\ IF capture /\ fault # "copy"
          THEN /\ savedFiles' = IF inTemp THEN CopyToSaved(savedFiles, tracked.filePath)
                                          ELSE savedFiles
               /\ msgTask' = [msgTask EXCEPT ![id].pc = "voNotify",
                                             ![id].tracked = tracked]
               /\ mediaTracker' = trk
               /\ tempFiles' = tmp
               /\ timers' = tms
               /\ UNCHANGED <<messageCache, putLog, evictLog>>
          ELSE /\ FinishMsg(id, trk, tmp, tms, fault)
               /\ UNCHANGED savedFiles
  /\ UNCHANGED <<sinceReady, processedRevokes, readyTask, others, bodyOf,
                 createTask, revokes, revokeLogs, expireLog, removeLog>>

\* The view-once notification has returned: read the temp file and await
\* sendTelegramMedia when there are bytes, else finish the handler.
MsgVoNotified(id, fault) ==
  /\ msgTask[id].pc = "voNotify"
  /\ LET readable == msgTask[id].tracked.filePath \in tempFiles
     IN
     /\ Faulty(fault, IF readable THEN {} ELSE {"append", "write"})
     /\ IF readable
          THEN /\ msgTask' = [msgTask EXCEPT ![id].pc = "voSend"]
               /\ UNCHANGED <<messageCache, mediaTracker, timers, tempFiles, putLog,
                              evictLog>>
          ELSE FinishMsg(id, mediaTracker, tempFiles, timers, fault)
  /\ UNCHANGED <<sinceReady, processedRevokes, savedFiles, readyTask, others,
                 bodyOf, createTask, revokes, revokeLogs, expireLog, removeLog>>

\* sendTelegramMedia has returned: the rest of the handler.
MsgVoSent(id, fault) ==
  /\ msgTask[id].pc = "voSend"
  /\ Faulty(fault, {"append", "write"})
  /\ FinishMsg(id, mediaTracker, tempFiles, timers, fault)
  /\ UNCHANGED <<sinceReady, processedRevokes, savedFiles, readyTask, others,
                 bodyOf, createTask, revokes, revokeLogs, expireLog, removeLog>>

\* ---------------------------------------------- the message_create handler
\* client.on("message_create"): own messages are skipped; a message that is
\* not cached yet is looked up (getChat, getContact) and cached afterwards.
MessageCreateArrive(id, body, fromMe) ==
  /\ createTask[id] = "idle"
  /\ NotYetRevoked(id)
  /\ BodyAgrees(id, body)
  /\ bodyOf' = [bodyOf EXCEPT ![id] = body]
  /\ createTask' = [createTask EXCEPT ![id] =
                      IF ~fromMe /\ ~CacheHas(messageCache, id) THEN "lookup" ELSE "done"]
  /\ UNCHANGED <<store, readyTask, others, msgTask, revokes, faults, revokeLogs,
                 cacheLogs>>

CreateLookup(id, fault) ==
  /\ createTask[id] = "lookup"
  /\ Faulty(fault, {"lookup"})
  /\ createTask' = [createTask EXCEPT ![id] = "done"]
  /\ IF fault = "none"
       THEN /\ DoCacheMessage(id, SnapshotOf(id, bodyOf[id], NoVal))
            /\ timers' = timers \cup CacheTimer(id)
       ELSE UNCHANGED <<messageCache, timers, putLog, evictLog>>
  /\ UNCHANGED <<sinceReady, mediaTracker, processedRevokes, tempFiles,
                 savedFiles, readyTask, others, bodyOf, msgTask, revokes, revokeLogs,
                 expireLog, removeLog>>

\* ------------------------------------------------------ the revoke handler
\* Date.now() - readyTimestamp < STARTUP_GRACE_MS
InGrace(since) == since < STARTUP_GRACE_MS

\* processedRevokes.has(msgId_dedup)
IsDuplicateNever(set, id) == FALSE
IsDuplicate(set, id) == id \in set

\* processedRevokes.add(msgId_dedup)
MarkRevokeNot(set, id) == set
MarkRevoke(set, id) == set \cup {id}

\* The return of the grace gate: it comes before processedRevokes.add.
GraceReturnMarked(set, id) == set \cup {id}
GraceReturn(set, id) == set

\* The before-references an after-reference comes with when the protocol
\* layer pairs a revoke with the message of the same id; the handler itself
\* takes any pair.  The before-reference carries the body the message
\* events carried.
BeforeIds(afterId) == {afterId}
BeforeBodies(id) ==
  IF id \in MsgIds /\ bodyOf[id] # NoVal THEN {bodyOf[id]} ELSE Bodies

Sum(f) == f["m1"] + f["m2"]

\* client.on("message_revoke_everyone"): the grace gate, the dedup gate, the
\* mark and its TTL timer, up to the await of afterMsg.getChat().
RevokeArrive(afterId, hasBefore, beforeId, beforeBody) ==
  /\ Sum(passes) < MaxRevokes
  /\ IF hasBefore THEN beforeId \in Ids /\ beforeBody \in BeforeBodies(beforeId)
                  ELSE beforeId = NoVal /\ beforeBody = NoVal
  /\ delivered' = [delivered EXCEPT ![afterId] = TRUE]
  /\ LET tk == [BaseRevoke EXCEPT
                  !.id = afterId, !.hasBefore = hasBefore,
                  !.beforeId = beforeId, !.beforeBody = beforeBody,
                  !.early = (readyTask # "done" \/ sinceReady < STARTUP_GRACE_MS),
                  !.again = (passes[afterId] > 0)]
     IN
     IF InGrace(sinceReady)
       THEN /\ lastGate' = [id |-> afterId, outcome |-> "grace", again |-> FALSE]
            /\ processedRevokes' = GraceReturn(processedRevokes, afterId)
            /\ UNCHANGED <<revokes, timers, sincePass, passes>>
       ELSE IF IsDuplicate(processedRevokes, afterId)
         THEN /\ lastGate' = [id |-> afterId, outcome |-> "dup", again |-> FALSE]
              /\ UNCHANGED <<revokes, processedRevokes, timers, sincePass, passes>>
         ELSE /\ lastGate' = [id |-> afterId, outcome |-> "pass", again |-> tk.again]
              /\ revokes' = Append(revokes, tk)
              /\ processedRevokes' = MarkRevoke(processedRevokes, afterId)
              /\ timers' = timers \cup DedupTimer(afterId)
              /\ sincePass' = [sincePass EXCEPT ![afterId] = 0]
              /\ passes' = [passes EXCEPT ![afterId] = @ + 1]
  /\ UNCHANGED <<sinceReady, messageCache, mediaTracker, tempFiles, savedFiles,
                 readyTask, others, bodyOf, msgTask, createTask, faults, persisted, notified,
                 renames, reconciled, cacheLogs>>

\* A field the before-reference left unresolved is taken from the snapshot.
FromCacheNever(value, unknown, hit, cachedValue) == value
FromCache(value, unknown, hit, cachedValue) ==
  IF hit /\ value = unknown THEN cachedValue ELSE value

\* beforeMsg.body || "[<empty>]", when there is a before-reference.
BeforeText(hasBefore, beforeBody) ==
  IF hasBefore THEN BodyOrMark(beforeBody) ELSE UNKNOWN_TEXT

\* The sentTime of the DeletedRecord; 0 stands for "Unknown".
SentTime(hasBefore, beforeId, hit, cached) ==
  IF hasBefore /\ TimestampOf(beforeId) # 0 THEN TimestampOf(beforeId)
  ELSE IF hit /\ cached.timestamp # 0 THEN cached.timestamp ELSE 0

\* fs.renameSync(temp, saved) on the two directories.
RenameFromTemp(tmp, moved) == tmp \ moved

\* saveDeletedRecord: the number of records saved for an id afterwards.
SaveRecord(n, saved) == IF saved THEN n + 1 ELSE n

\* The result of a lookup that rejected.
Rejected == [rejected |-> TRUE]

\* The chat location of the after-reference, "Unknown Chat" when getChat
\* rejected (the inner catch).
Location(chat) == IF chat = Rejected THEN UNKNOWN_CHAT ELSE ChatLocationOf(chat)

\* The fields of a deletion as the revoke handler resolves them: from the
\* after-reference's chat, from the before-reference's contact and body,
\* then from the cached snapshot for what still holds its initial marker.
ResolveFields(hasBefore, chat, contact, beforeBody, cached) ==
  LET yields == hasBefore /\ contact # Rejected
      name0 == IF yields THEN SenderNameOf(contact) ELSE UNKNOWN
      num0 == IF yields THEN contact.number ELSE UNKNOWN
      text0 == BeforeText(hasBefore, beforeBody)
      loc0 == Location(chat)
      hit == cached # NoEntry
  IN [senderName |-> FromCache(name0, UNKNOWN, hit, cached.senderName),
      senderNumber |-> FromCache(num0, UNKNOWN, hit, cached.senderNumber),
      originalText |-> FromCache(text0, UNKNOWN_TEXT, hit, cached.body),
      chatLocation |-> FromCache(loc0, UNKNOWN_CHAT, hit, cached.chatLocation)]

\* The side-effects of the reconciliation in the order of the code, after
\* the renames that were done: the log append, saveDeletedRecord, then the
\* call of sendPushNotification; a throwing rename or append leads to the
\* fallback notification instead.
EffectsNotifyFirst(renamed, fail) ==
  renamed \o <<"notify", "persist", "append">>
Effects(renamed, fail) ==
  IF fail \in {"renameMedia", "renameMsg"} THEN renamed \o <<"fallback">>
  ELSE IF fail = "append" THEN renamed \o <<"append", "fallback">>
  ELSE renamed \o <<"append", "persist", "notify">>

\* Where an exception of the promotion or of the log append is taken: the
\* catch of the handler's try, which sends the fallback notification.
CatchNothing(aborted) == IF aborted THEN "escaped" ELSE "notify"
Catch(aborted) == IF aborted THEN "fallback" ELSE "notify"

\* getChat (and getContact, with a before-reference) have settled: resolve
\* the fields, read cache and tracker, promote the files, append to the log,
\* save the DeletedRecord, and call sendPushNotification.  An exception in
\* this stretch leads to the catch and its fallback notification.
RevokeLookup(k, chatOk, contactOk, fail) ==
  /\ k \in 1..Len(revokes) /\ revokes[k].pc = "lookup"
  /\ LET tk == revokes[k]
         msgId == RevokeMsgId(tk)
         cached == CacheGet(messageCache, msgId)
         hit == cached # NoEntry
         fields == ResolveFields(tk.hasBefore,
                                 IF chatOk THEN ChatOf(tk.id) ELSE Rejected,
                                 IF tk.hasBefore /\ contactOk
                                   THEN ContactOf(tk.beforeId) ELSE Rejected,
                                 tk.beforeBody, cached)
         senderName == fields.senderName
         senderNumber == fields.senderNumber
         originalText == fields.originalText
         chatLocation == fields.chatLocation
         tracked == mediaTracker[msgId]
         hasT == tracked # NoRec
         \* the media slot
         mediaSlot == hasT /\ tracked.filePath # NoVal
         tms1 == IF mediaSlot THEN ClearTimeout(timers, "media", tracked.timeout)
                              ELSE timers
         mediaInTemp == mediaSlot /\ tracked.filePath \in tempFiles
         throwsMedia == mediaInTemp /\ fail = "renameMedia"
         movedMedia == mediaInTemp /\ ~throwsMedia
         \* the transcript slot
         msgSlot == hasT /\ ~throwsMedia /\ tracked.msgFilePath # NoVal
         tms2 == IF msgSlot
                   THEN ClearTimeout(tms1, "msgfile", tracked.msgFileTimeout)
                   ELSE tms1
         msgInTemp == msgSlot /\ tracked.msgFilePath \in tempFiles
         throwsMsg == msgInTemp /\ fail = "renameMsg"
         movedMsg == msgInTemp /\ ~throwsMsg
         \* the text-only fallback, with its own try/catch
         fbInTemp == /\ ~hasT /\ hit /\ cached.msgFilePath # NoVal
                     /\ cached.msgFilePath \in tempFiles
         movedFb == fbInTemp /\ fail # "renameFallback"
         throwsAppend == fail = "append"
         aborted == throwsMedia \/ throwsMsg \/ throwsAppend
         saved == ~aborted /\ fail # "persist"
         moved == (IF movedMedia THEN {tracked.filePath} ELSE {})
                    \cup (IF movedMsg THEN {tracked.msgFilePath} ELSE {})
                    \cup (IF movedFb THEN {cached.msgFilePath} ELSE {})
         record == [where |-> chatLocation, senderName |-> senderName,
                    senderNumber |-> senderNumber, originalMessage |-> originalText,
                    sentTime |-> SentTime(tk.hasBefore, tk.beforeId, hit, cached),
                    mediaFilename |-> IF hasT THEN tracked.filePath ELSE NoVal]
         notif == IF aborted
                    THEN [NoNotif EXCEPT !.title = "Message Deleted"]
                    ELSE [title |-> "Deleted by", where |-> chatLocation,
                          who |-> senderName, number |-> senderNumber,
                          message |-> originalText]
         applicable == (IF mediaInTemp THEN {"renameMedia"} ELSE {})
                         \cup (IF hasT /\ tracked.msgFilePath # NoVal
                                  /\ tracked.msgFilePath \in tempFiles
                                 THEN {"renameMsg"} ELSE {})
                         \cup (IF fbInTemp THEN {"renameFallback"} ELSE {})
                         \cup {"append", "persist"}
         cost == (IF chatOk THEN 0 ELSE 1) + (IF contactOk THEN 0 ELSE 1)
                   + (IF fail = "none" THEN 0 ELSE 1)
     IN
     /\ fail \in applicable \cup {"none"}
     /\ ~tk.hasBefore => contactOk
     /\ faults + cost <= MaxFaults
     /\ faults' = faults + cost
     /\ timers' = tms2
     /\ tempFiles' = RenameFromTemp(tempFiles, moved)
     /\ savedFiles' = savedFiles \cup moved
     /\ renames' = [f \in Files |-> IF f \in moved THEN renames[f] + 1 ELSE renames[f]]
     /\ persisted' = [persisted EXCEPT ![tk.id] = SaveRecord(@, saved)]
     /\ notified' = [notified EXCEPT ![tk.id] = @ + 1]
     /\ revokes' = [revokes EXCEPT ![k] =
          [tk EXCEPT !.pc = Catch(aborted),
                     !.msgId = msgId, !.cached = cached, !.tracked = tracked,
                     !.mediaRef = IF movedMedia THEN tracked.filePath ELSE NoVal,
                     !.threw = IF fail = "none" THEN NoVal ELSE fail,
                     !.record = IF saved THEN record ELSE NoRecord,
                     !.notif = notif,
                     !.fileOps = {<<"rename", f>> : f \in moved},
                     !.effects = Effects(
                       (IF movedMedia THEN <<"renameMedia">> ELSE <<>>)
                         \o (IF movedMsg THEN <<"renameMsg">> ELSE <<>>)
                         \o (IF movedFb THEN <<"renameFallback">> ELSE <<>>),
                       fail),
                     !.settled = (msgId \in MsgIds /\ msgTask[msgId].pc = "done"),
                     !.mediaInTemp = mediaInTemp,
                     !.second = reconciled[msgId]]]
  /\ UNCHANGED <<sinceReady, messageCache, mediaTracker, processedRevokes,
                 handlersButRevokes, delivered, lastGate, sincePass, passes,
                 reconciled, cacheLogs>>

\* The cleanup at the end of the reconciliation.
CleanupTrackerNever(trk, tracked, msgId) == trk
CleanupTracker(trk, tracked, msgId) ==
  IF tracked # NoRec THEN [trk EXCEPT ![msgId] = NoRec] ELSE trk

RemoveAt(seq, k) == [j \in 1..(Len(seq) - 1) |-> IF j < k THEN seq[j] ELSE seq[j + 1]]

\* The handler returns after its cleanup.
RevokeCleanup(k) ==
  /\ mediaTracker' = CleanupTracker(mediaTracker, revokes[k].tracked, revokes[k].msgId)
  /\ messageCache' = CacheDelete(messageCache, revokes[k].msgId)
  /\ removeLog' = IF CacheHas(messageCache, revokes[k].msgId)
                    THEN removeLog \cup {revokes[k].msgId} ELSE removeLog
  /\ reconciled' = [reconciled EXCEPT ![revokes[k].msgId] = TRUE]
  /\ revokes' = RemoveAt(revokes, k)

\* sendPushNotification has returned: send the media when its bytes can be
\* read (from saved, else from temp), otherwise clean up.
RevokeNotified(k) ==
  /\ k \in 1..Len(revokes) /\ revokes[k].pc = "notify"
  /\ LET tracked == revokes[k].tracked
     IN
     IF /\ tracked # NoRec /\ tracked.filePath # NoVal
        /\ tracked.filePath \in savedFiles \cup tempFiles
       THEN /\ revokes' = [revokes EXCEPT ![k].pc = "sendMedia"]
            /\ UNCHANGED <<mediaTracker, messageCache, removeLog, reconciled>>
       ELSE RevokeCleanup(k)
  /\ UNCHANGED <<sinceReady, processedRevokes, timers, tempFiles,
                 savedFiles, handlersButRevokes, faults, delivered, lastGate,
                 sincePass, passes, persisted, notified, renames, putLog, evictLog,
                 expireLog>>

\* sendTelegramMedia has returned: clean up.
RevokeMediaSent(k) ==
  /\ k \in 1..Len(revokes) /\ revokes[k].pc = "sendMedia"
  /\ RevokeCleanup(k)
  /\ UNCHANGED <<sinceReady, processedRevokes, timers, tempFiles,
                 savedFiles, handlersButRevokes, faults, delivered, lastGate,
                 sincePass, passes, persisted, notified, renames, putLog, evictLog,
                 expireLog>>

\* The fallback notification of the catch has returned; the handler returns
\* without the cleanup.
RevokeFallbackNotified(k) ==
  /\ k \in 1..Len(revokes) /\ revokes[k].pc = "fallback"
  /\ revokes' = RemoveAt(revokes, k)
  /\ UNCHANGED <<store, handlersButRevokes, faults, delivered, lastGate,
                 sincePass, passes, persisted, notified, renames, reconciled,
                 cacheLogs>>

\* ------------------------------------------------- sendPushNotification
\* The outcomes of a fetch: a response with res.ok, a response without, a
\* rejection (network error).
FetchOutcomes == {"ok", "notOk", "rejects"}

\* catch (err): log the error and return.
OnErrorThrow(call) == [call EXCEPT !.pc = "threw"]
OnError(call) == [call EXCEPT !.pc = "returned", !.logged = "error"]

\* The else branch of the last test of res.ok: log that it was sent.
Sent(call) == [call EXCEPT !.pc = "returned", !.logged = "sent"]

\* sendPushNotification(title, body) is called: the HTML attempt is sent.
NotifyStart(c) ==
  /\ calls[c].pc = "idle"
  /\ calls' = [calls EXCEPT ![c] = [IdleCall EXCEPT !.pc = "fetch1", !.attempts = 1]]
  /\ UNCHANGED <<program, shutdownTask, apart>>

\* The first fetch has settled: with a response that is not ok the
\* plain-text attempt is sent.
NotifyFirst(c, out) ==
  /\ calls[c].pc = "fetch1"
  /\ LET call == [calls[c] EXCEPT !.first = out]
     IN calls' = [calls EXCEPT ![c] =
          IF out = "rejects" THEN OnError(call)
          ELSE IF out = "ok" THEN Sent(call)
          ELSE [call EXCEPT !.pc = "fetch2", !.attempts = @ + 1]]
  /\ UNCHANGED <<program, shutdownTask, apart>>

\* The second fetch has settled: with a response that is not ok the error
\* body is read (await res.text()).
NotifySecond(c, out) ==
  /\ calls[c].pc = "fetch2"
  /\ calls' = [calls EXCEPT ![c] =
       IF out = "rejects" THEN OnError(@)
       ELSE IF out = "ok" THEN Sent(@)
       ELSE [@ EXCEPT !.pc = "text"]]
  /\ UNCHANGED <<program, shutdownTask, apart>>

\* res.text() has settled: the API error is logged.
NotifyText(c, ok) ==
  /\ calls[c].pc = "text"
  /\ calls' = [calls EXCEPT ![c] =
       IF ok THEN [@ EXCEPT !.pc = "returned", !.logged = "apiError"] ELSE OnError(@)]
  /\ UNCHANGED <<program, shutdownTask, apart>>

\* ------------------------------------------------------------- shutdown
\* SIGINT or SIGTERM: shutdown stops the polling and awaits client.destroy().
ShutdownArrive ==
  /\ shutdownTask = "idle"
  /\ shutdownTask' = "destroy"
  /\ UNCHANGED <<program, calls, apart>>

\* client.destroy() has settled or rejected: process.exit(0).
ShutdownExit ==
  /\ shutdownTask = "destroy"
  /\ shutdownTask' = "exited"
  /\ UNCHANGED <<program, calls, apart>>

\* The process has not exited.
Running == shutdownTask # "exited"

\* ------------------------------------------- the field merge on its own
\* What getContact can resolve to: a contact with or without a name, a
\* pushname and a number; a name can be any string, "Unknown" included.
Contacts ==
  [name : {NoVal, "Alice", UNKNOWN}, pushname : {NoVal, "Al"}, number : {NoVal, "111"}]
Chats == {ChatOf(id) : id \in Ids}
\* The bodies a before-reference can carry: any text.
BeforeTexts == Bodies \cup {UNKNOWN_TEXT}
\* What messageCache.get can return: undefined, or the snapshot the message
\* handler cached for a message.
Snapshots ==
  {NoEntry} \cup {CacheGet(cacheMessage(<<>>, id, SnapshotOf(id, "hello", MsgFile(id))), id) :
                    id \in Ids}

\* The same resolution in src/index.js: getChat and getContact are awaited
\* in the handler's only try, and there is no cache.
IndexResolve(hasBefore, chat, contact, beforeBody) ==
  IF chat = Rejected \/ (hasBefore /\ contact = Rejected)
    THEN [aborted |-> TRUE, senderName |-> NoVal, senderNumber |-> NoVal,
          originalText |-> NoVal, chatLocation |-> NoVal]
    ELSE [aborted |-> FALSE,
          senderName |-> IF hasBefore THEN SenderNameOf(contact) ELSE UNKNOWN,
          senderNumber |-> IF hasBefore THEN contact.number ELSE UNKNOWN,
          originalText |-> BeforeText(hasBefore, beforeBody),
          chatLocation |-> ChatLocationOf(chat)]

\* One resolution of the fields of a deletion, for any outcome of the two
\* lookups, any before-reference and any cached snapshot.
Resolve(hasBefore, chat, contact, beforeBody, cached) ==
  /\ IF hasBefore THEN beforeBody \in BeforeTexts
                  ELSE contact = Rejected /\ beforeBody = NoVal
  /\ resolved' = [called |-> TRUE, hasBefore |-> hasBefore, chat |-> chat,
                  contact |-> contact, beforeBody |-> beforeBody, cached |-> cached,
                  out |-> ResolveFields(hasBefore, chat, contact, beforeBody, cached),
                  index |-> IndexResolve(hasBefore, chat, contact, beforeBody)]
  /\ UNCHANGED <<program, shutdownTask, calls, uploads, telegram, lastSave, emitted>>

\* ------------------------------------ uploadMediaToGridFS and its callers
\* The handler reaches its call of uploadMediaToGridFS, which awaits
\* isStorageWithinLimit.
UploadCall(s) ==
  /\ uploads[s].pc = "idle"
  /\ uploads' = [uploads EXCEPT ![s].pc = "stats"]
  /\ UNCHANGED <<program, shutdownTask, calls, resolved, telegram, lastSave, emitted>>

\* isStorageWithinLimit: usedMB < MONGO_STORAGE_LIMIT_MB, and false when
\* db.stats() rejects.
IsStorageWithinLimit(out) == out = "within"

\* The storage check has settled: past the limit or unable to check, the
\* upload returns null and the caller goes on; within it, the stream is piped.
StorageChecked(s, out) ==
  /\ uploads[s].pc = "stats"
  /\ uploads' = [uploads EXCEPT ![s] =
       IF IsStorageWithinLimit(out)
         THEN [@ EXCEPT !.pc = "stream", !.storage = out]
         ELSE [@ EXCEPT !.pc = "rest", !.storage = out, !.fileId = NoVal]]
  /\ UNCHANGED <<program, shutdownTask, calls, resolved, telegram, lastSave, emitted>>

\* The promise uploadMediaToGridFS returns from inside its try, without
\* awaiting it: "finish" resolves it with the file id, "error" rejects it,
\* and the rejection is the caller's: its await throws into the catch of the
\* handler (of the view-once capture), which logs.
Streamed(s, out) ==
  /\ uploads[s].pc = "stream"
  /\ uploads' = [uploads EXCEPT ![s] =
       IF out = "finish"
         THEN [@ EXCEPT !.pc = "rest", !.stream = out, !.fileId = "fileId"]
         ELSE [@ EXCEPT !.pc = "caught", !.stream = out, !.rejected = TRUE]]
  /\ UNCHANGED <<program, shutdownTask, calls, resolved, telegram, lastSave, emitted>>

\* The steps of the caller after the upload: the record is created with
\* mediaFileId: mediaFileId || undefined.
UploadRest(s) ==
  /\ uploads[s].pc = "rest"
  /\ uploads' = [uploads EXCEPT ![s].pc = "done", ![s].created = TRUE]
  /\ UNCHANGED <<program, shutdownTask, calls, resolved, telegram, lastSave, emitted>>

\* ---------------------------------------------- the tracker on its own
\* The model names one temp file per id and slot (the code puts Date.now()
\* in the name), so an attach is taken when no file of that slot is left.
\* saveMediaToTemp from the temp write on: the file, its expiry timer, and
\* mediaTracker.set with the record of the media slot.
SaveMediaToTemp(id) ==
  /\ MediaFile(id) \notin tempFiles
  /\ \A t \in timers : ~(t.kind = "media" /\ t.id = id)
  /\ tempFiles' = tempFiles \cup {MediaFile(id)}
  /\ timers' = timers \cup {MediaTimer(id)}
  /\ mediaTracker' = [mediaTracker EXCEPT ![id] = MediaRecord(id)]
  /\ UNCHANGED <<sinceReady, messageCache, processedRevokes, savedFiles,
                 handlers, faults, revokeLogs, cacheLogs>>

\* The transcript write of the message handler: the file, its expiry timer,
\* and the transcript slot of the tracker record.
SaveTranscript(id) ==
  /\ MsgFile(id) \notin tempFiles
  /\ \A t \in timers : ~(t.kind = "msgfile" /\ t.id = id)
  /\ tempFiles' = tempFiles \cup {MsgFile(id)}
  /\ timers' = timers \cup {MsgFileTimer(id)}
  /\ mediaTracker' = [mediaTracker EXCEPT ![id] = AttachTranscript(@, id)]
  /\ UNCHANGED <<sinceReady, messageCache, processedRevokes, savedFiles,
                 handlers, faults, revokeLogs, cacheLogs>>

\* ------------------------------------------------ the cache on its own
\* cacheMessage as the handlers call it: the put and its expiry timer.
CachePut(id) ==
  /\ Len(putLog) < MaxPuts
  /\ DoCacheMessage(id, SnapshotOf(id, "hello", NoVal))
  /\ timers' = timers \cup CacheTimer(id)
  /\ UNCHANGED <<sinceReady, mediaTracker, processedRevokes, tempFiles, savedFiles,
                 handlers, faults, revokeLogs, expireLog, removeLog>>

\* messageCache.delete(msgId) as the cleanup of the revoke handler calls it:
\* no timer is cancelled.
CacheRemove(id) ==
  /\ CacheHas(messageCache, id)
  /\ messageCache' = CacheDelete(messageCache, id)
  /\ removeLog' = removeLog \cup {id}
  /\ UNCHANGED <<sinceReady, mediaTracker, processedRevokes, timers, tempFiles,
                 savedFiles, handlers, faults, revokeLogs, putLog, evictLog,
                 expireLog>>

\* ------------------------------------- the maps and their timers on their own
\* The text-only fallback of the revoke handler: no tracker record, a cached
\* snapshot that names the transcript: the file, if still in temp, is renamed
\* to saved; no timer is cancelled.
RenameCached(id) ==
  /\ mediaTracker[id] = NoRec
  /\ MsgFile(id) \in tempFiles
  /\ tempFiles' = RenameFromTemp(tempFiles, {MsgFile(id)})
  /\ savedFiles' = savedFiles \cup {MsgFile(id)}
  /\ UNCHANGED <<sinceReady, messageCache, mediaTracker, processedRevokes, timers,
                 handlers, faults, revokeLogs, cacheLogs>>

\* The mark of the revoke handler after its gates: processedRevokes.add and
\* the timer that deletes the id again.
MarkProcessed(id) ==
  /\ ~IsDuplicate(processedRevokes, id)
  /\ processedRevokes' = MarkRevoke(processedRevokes, id)
  /\ timers' = timers \cup DedupTimer(id)
  /\ UNCHANGED <<sinceReady, messageCache, mediaTracker, tempFiles, savedFiles,
                 handlers, faults, revokeLogs, cacheLogs>>

\* -------------------------------------- promotion and the startup cleanup
\* The promotion of the revoke handler for a tracked id, on its own: each
\* slot's timer is cancelled and its file, if still in temp, renamed to
\* saved; then the cleanup drops the record.  A rename of the media file
\* that throws leaves the handler after the first clearTimeout.
PromoteTracked(id, ok) ==
  LET rec == mediaTracker[id]
      moved == {f \in {rec.filePath, rec.msgFilePath} : f \in tempFiles}
  IN
  /\ rec # NoRec
  /\ ok \/ rec.filePath \in tempFiles
  /\ IF ok
       THEN /\ timers' = ClearTimeout(ClearTimeout(timers, "media", rec.timeout),
                                      "msgfile", rec.msgFileTimeout)
            /\ tempFiles' = RenameFromTemp(tempFiles, moved)
            /\ savedFiles' = savedFiles \cup moved
            /\ mediaTracker' = [mediaTracker EXCEPT ![id] = NoRec]
       ELSE /\ timers' = ClearTimeout(timers, "media", rec.timeout)
            /\ UNCHANGED <<tempFiles, savedFiles, mediaTracker>>
  /\ UNCHANGED <<sinceReady, messageCache, processedRevokes, handlers, faults,
                 revokeLogs, cacheLogs>>

\* The file a pending timer was set for.
FileOf(t) == IF t.kind = "media" THEN MediaFile(t.id)
             ELSE IF t.kind = "msgfile" THEN MsgFile(t.id) ELSE NoVal

\* The directory startClient scans, and its files that may be older than
\* the retention window: those with no timer pending (a file is written
\* together with its timer).
ScannedDirSaved == "saved"
ScannedDir == "temp"

Aged(dir, ts) == {f \in dir : \A t \in ts : FileOf(t) # f}

\* The startup cleanup of startClient, at process start and at every
\* re-authentication: unlink the files whose mtime is older than the window.
StartupCleanup(old) ==
  /\ old # {}
  /\ IF ScannedDir = "temp"
       THEN /\ old \subseteq Aged(tempFiles, timers)
            /\ tempFiles' = tempFiles \ old
            /\ UNCHANGED savedFiles
       ELSE /\ old \subseteq Aged(savedFiles, timers)
            /\ savedFiles' = savedFiles \ old
            /\ UNCHANGED tempFiles
  /\ UNCHANGED <<sinceReady, messageCache, mediaTracker, processedRevokes, timers,
                 handlers, faults, revokeLogs, cacheLogs>>

\* ------------------------------------------- the Telegram command polling
\* TELEGRAM_CHAT_ID (a string of the environment) and the chat ids updates
\* carry (numbers); NoChat stands for an update that carries no message or
\* no chat.
TELEGRAM_CHAT_ID == "42"
NoChat == 0
ChatNumbers == {42, 99}
Texts == {"/rebuild", "/status", "hi", NoVal}
Updates == [update_id : 1..MaxUpdates, chat : ChatNumbers \cup {NoChat}, text : Texts]

\* String(update.message?.chat?.id)
String(v) == IF v = 42 THEN "42" ELSE IF v = 99 THEN "99" ELSE "undefined"

\* if (chatId !== TELEGRAM_CHAT_ID) continue
AuthorizedAny(chatId) == TRUE
Authorized(chatId) == chatId = TELEGRAM_CHAT_ID

\* One iteration of the for loop of pollTelegramCommands on a loop state:
\* the offset moves past the update; a /rebuild of the authorized chat runs
\* handleReauth (a notification, the client destroyed and a new one
\* started), a /status sends the status notification.
HandleUpdate(loop, u) ==
  LET next == [loop EXCEPT !.offset = u.update_id + 1]
  IN  IF ~Authorized(String(u.chat)) THEN next
      ELSE IF u.text = "/rebuild"
        THEN [next EXCEPT !.clients = @ + 1, !.notes = Append(@, "reauth")]
      ELSE IF u.text = "/status"
        THEN [next EXCEPT !.notes = Append(@, "status")]
      ELSE next

\* getUpdates returns an update not below the offset and the loop handles
\* it; the second loop is sent the updates of the authorized chat only.
TgUpdate(u) ==
  /\ u.update_id >= telegram.run.offset
  /\ telegram' = [run |-> HandleUpdate(telegram.run, u),
                  alone |-> IF u.chat = 42 THEN HandleUpdate(telegram.alone, u)
                                           ELSE telegram.alone]
  /\ UNCHANGED <<program, shutdownTask, calls, resolved, uploads, lastSave, emitted>>

\* ------------------------------------------------ saveMediaToTemp, whole
\* What downloadMedia gives: a rejection, nothing, or media whose data is a
\* base64 string, here its length and the number of its padding characters
\* (the empty string has neither).
NoMedia == [nothing |-> TRUE]
MediaData == {d \in [chars : {0, 4, 8}, pad : 0..2] : d.chars = 0 => d.pad = 0}
Downloads == {Rejected, NoMedia} \cup MediaData

\* Buffer.byteLength(media.data, "base64")
ByteLength(data) == (data.chars * 3) \div 4 - data.pad

\* if (sizeBytes > MAX_MEDIA_SIZE_MB * 1024 * 1024) return null
WithinLimitStrict(sizeBytes) == sizeBytes < MAX_MEDIA_BYTES
WithinLimit(sizeBytes) == ~(sizeBytes > MAX_MEDIA_BYTES)

\* The filename saveMediaToTemp returns, or null: no media on the message, a
\* download that rejects (caught), no media or empty data, data past the
\* limit, or a temp write that throws (caught).
SaveResult(id, hasMedia, media, writeOk) ==
  IF ~hasMedia THEN NoVal
  ELSE IF media = Rejected THEN NoVal
  ELSE IF media = NoMedia \/ media.chars = 0 THEN NoVal
  ELSE IF ~WithinLimit(ByteLength(media)) THEN NoVal
  ELSE IF ~writeOk THEN NoVal
  ELSE MediaFile(id)

\* One call of saveMediaToTemp: with a filename to return, the file is in
\* temp, its timer pending and the record set; with null, nothing is touched.
SaveMediaCall(id, hasMedia, media, writeOk) ==
  LET result == SaveResult(id, hasMedia, media, writeOk)
  IN
  /\ MediaFile(id) \notin tempFiles
  /\ \A t \in timers : ~(t.kind = "media" /\ t.id = id)
  /\ lastSave' = [called |-> TRUE, id |-> id, hasMedia |-> hasMedia,
                  media |-> media, writeOk |-> writeOk, result |-> result]
  /\ IF result # NoVal
       THEN /\ tempFiles' = tempFiles \cup {result}
            /\ timers' = timers \cup {MediaTimer(id)}
            /\ mediaTracker' = [mediaTracker EXCEPT ![id] = MediaRecord(id)]
       ELSE UNCHANGED <<tempFiles, timers, mediaTracker>>
  /\ UNCHANGED <<sinceReady, messageCache, processedRevokes, savedFiles,
                 readyTask, bodyOf, msgTask, createTask, revokes, shutdownTask,
                 calls, resolved, uploads, telegram, emitted, faults, revokeLogs,
                 cacheLogs>>

\* --------------------------------------- what the handlers write and send
\* A text is the sequence of its template pieces and interpolated values
\* (pictographs left out).  The texts of part_000, by output:
Text000(what, e) ==
  CASE what = "viewOnceNotice" ->
         <<"View-Once from ", e.name, "|", "Where: ", e.chatLocation, "\nWho: ",
           e.name, " (", e.senderNumber, ")\nTime: ", e.time, "\nMessage: ",
           BodyOrMark(e.body)>>
    [] what = "viewOnceCaption" ->
         <<"View-once from ", e.name, " (", e.senderNumber, ")\nIn: ",
           e.chatLocation>>
    [] what = "messageLog" ->
         <<"Time: ", e.time, "\nWhere: ", e.chatLocation, "\nWho: ", e.name, " (",
           e.senderNumber, ")\nMessage: ", BodyOrMark(e.body)>>
         \o (IF e.saved THEN <<"\nMedia: media/temp/", "file">> ELSE <<>>)
         \o <<"\n------------------------------\n">>
    [] what = "fileContent" ->
         <<"Time: ", e.time, "\nWhere: ", e.chatLocation, "\nWho: ", e.name, " (",
           e.senderNumber, ")\nSent: ", e.time, "\nMessage: ", BodyOrMark(e.body)>>
         \o (IF e.saved THEN <<"\nMedia: ", "media/temp/", "file">> ELSE <<>>)
    [] what = "revokeLog" ->
         <<"\nDELETED MESSAGE\nTime: ", e.time, "\nWhere: ", e.chatLocation,
           "\nWho: ", e.name, " (", e.senderNumber, ")\nOriginal: ",
           e.originalText>>
         \o (IF e.tracked THEN <<"\nSaved Media: media/saved/", "file">> ELSE <<>>)
         \o <<"\n==============================\n">>
    [] what = "deletedRecord" ->
         <<e.time, e.chatLocation, e.name, e.senderNumber, e.originalText, e.time,
           IF e.tracked THEN "file" ELSE NoVal>>
    [] what = "deleteNotice" ->
         <<"Deleted by ", e.name, "|", "Where: ", e.chatLocation, "\nWho: ",
           e.name, " (", e.senderNumber, ")\nSent: ", e.time, "\nDeleted: ",
           e.time, "\nMessage: ", e.originalText>>
    [] what = "deleteCaption" ->
         <<"Deleted file from ", e.name, " (", e.senderNumber, ")\nIn: ",
           e.chatLocation>>
    [] what = "fallbackNotice" ->
         <<"Message Deleted", "|",
           "A message was deleted but details could not be retrieved.\nError: ",
           e.error>>

\* The texts of part_002.
Text002Reworded(what, e) ==
  IF what = "deleteNotice"
    THEN <<"Removed by ">> \o Tail(Text000(what, e))
    ELSE Text000(what, e)
Text002(what, e) ==
  CASE what = "viewOnceNotice" ->
         <<"View-Once from ", e.name, "|", "Where: ", e.chatLocation, "\nWho: ",
           e.name, " (", e.senderNumber, ")\nTime: ", e.time, "\nMessage: ",
           BodyOrMark(e.body)>>
    [] what = "viewOnceCaption" ->
         <<"View-once media from ", e.name, " (", e.senderNumber, ")\nIn: ",
           e.chatLocation>>
    [] what = "messageLog" ->
         <<"Time: ", e.time, "\nWhere: ", e.chatLocation, "\nWho: ", e.name, " (",
           e.senderNumber, ")\nMessage: ", BodyOrMark(e.body)>>
         \o (IF e.saved THEN <<"\nMedia: media/temp/", "file">> ELSE <<>>)
         \o <<"\n------------------------------\n">>
    [] what = "fileContent" ->
         <<"Time: ", e.time, "\nWhere: ", e.chatLocation, "\nWho: ", e.name, " (",
           e.senderNumber, ")\nSent: ", e.time, "\nMessage: ", BodyOrMark(e.body)>>
         \o (IF e.saved THEN <<"\nMedia: ", "media/temp/", "file">> ELSE <<>>)
    [] what = "revokeLog" ->
         <<"\nDELETED MESSAGE DETECTED\nTime: ", e.time, "\nWhere: ", e.chatLocation,
           "\nWho: ", e.name, " (", e.senderNumber, ")\nOriginal Message: ",
           e.originalText>>
         \o (IF e.tracked THEN <<"\nSaved Media: media/saved/", "file">> ELSE <<>>)
         \o <<"\n==============================\n">>
    [] what = "deletedRecord" ->
         <<e.time, e.chatLocation, e.name, e.senderNumber, e.originalText, e.time,
           IF e.tracked THEN "file" ELSE NoVal>>
    [] what = "deleteNotice" ->
         <<"Deleted by ", e.name, "|", "Where: ", e.chatLocation, "\nWho: ",
           e.name, " (", e.senderNumber, ")\nSent: ", e.time, "\nDeleted: ",
           e.time, "\nMessage: ", e.originalText>>
    [] what = "deleteCaption" ->
         <<"Deleted file from ", e.name, " (", e.senderNumber, ")\nIn: ",
           e.chatLocation>>
    [] what = "fallbackNotice" ->
         <<"Message Deleted", "|",
           "A message was deleted for everyone but details could not be retrieved.\nError: ",
           e.error>>

\* One write or send of a handler of a source file: to the log file, a file
\* in temp, a notification, a media message or deleted_messages.json.
Output(v, what, e) ==
  [to |-> CASE what \in {"messageLog", "revokeLog"} -> "log"
            [] what = "fileContent" -> "file"
            [] what \in {"viewOnceNotice", "deleteNotice", "fallbackNotice"} -> "notify"
            [] what \in {"viewOnceCaption", "deleteCaption"} -> "media"
            [] what = "deletedRecord" -> "record",
   what |-> what,
   text |-> IF v = "part_000" THEN Text000(what, e) ELSE Text002(what, e)]

\* What the message handler of a source file writes and sends, in order.
MessageOutputs(v, e) ==
  (IF e.viewOnce /\ e.saved
     THEN <<Output(v, "viewOnceNotice", e)>>
          \o (IF e.readable THEN <<Output(v, "viewOnceCaption", e)>> ELSE <<>>)
     ELSE <<>>)
  \o <<Output(v, "messageLog", e), Output(v, "fileContent", e)>>

\* What the message_revoke_everyone handler of a source file writes and
\* sends, in order.
RevokeOutputs(v, e) ==
  IF e.error # NoVal
    THEN <<Output(v, "fallbackNotice", e)>>
    ELSE <<Output(v, "revokeLog", e), Output(v, "deletedRecord", e),
           Output(v, "deleteNotice", e)>>
         \o (IF e.tracked /\ e.readable
               THEN <<Output(v, "deleteCaption", e)>> ELSE <<>>)

\* One event handled by both source files side by side.
HandleBoth(e) ==
  /\ \A v \in Variants : Len(emitted[v]) < MaxEvents
  /\ emitted' = [v \in Variants |->
                   Append(emitted[v], IF e.kind = "message"
                                        THEN MessageOutputs(v, e)
                                        ELSE RevokeOutputs(v, e))]
  /\ UNCHANGED <<program, shutdownTask, calls, resolved, uploads, telegram, lastSave>>

\* The events of the message handler (whether saveMediaToTemp returned a
\* filename, whether the message is view-once, whether its file can be
\* read) and of the revoke handler (whether the media is tracked, whether
\* its file can be read, and the error thrown before the first output).
NextVariants ==
  \/ \E e \in [kind : {"message"}, name : {"Ann", "Bob"}, senderNumber : {"N"},
               time : {"T"}, chatLocation : {"Private Chat"}, body : Bodies,
               saved : BOOLEAN, viewOnce : BOOLEAN, readable : BOOLEAN] :
        HandleBoth(e)
  \/ \E e \in [kind : {"revoke"}, name : {"Ann", "Bob"}, senderNumber : {"N"},
               time : {"T"}, chatLocation : {"Private Chat"},
               originalText : {EMPTY_MARK, "hello"}, tracked : BOOLEAN,
               readable : BOOLEAN, error : {NoVal, "chat lookup failed"}] :
        HandleBoth(e)

SpecVariants == Init /\ [][NextVariants]_vars

\* ------------------------------------------------------ specifications
Faults == {"none", "lookup", "append", "write", "copy"}
RevokeFailures == {"none", "renameMedia", "renameMsg", "renameFallback", "append",
                   "persist"}

\* The ready handler has returned.
Connected == readyTask = "done"

\* The timers and the ready handler.
Background ==
  \/ Tick
  \/ \E t \in timers : DedupExpire(t)
  \/ ReadyArrive
  \/ ReadyNotified

\* The steps of the revoke handler after its gates.
Reconcile ==
  \/ \E k \in 1..Len(revokes), chatOk, contactOk \in BOOLEAN, fail \in RevokeFailures :
       RevokeLookup(k, chatOk, contactOk, fail)
  \/ \E k \in 1..Len(revokes) : RevokeNotified(k)
  \/ \E k \in 1..Len(revokes) : RevokeFallbackNotified(k)

\* The reconciliation of deletions with what the message handlers kept: the
\* events of a message without view-once media and its revokes, delivered
\* once the client is connected, one revoke at a time, with lookups and file
\* operations that fail only in the revoke handler.
Next ==
  \/ Background
  \/ \E t \in timers : CacheExpire(t)
  \/ \E t \in timers : MediaExpire(t)
  \/ \E t \in timers : MsgFileExpire(t)
  \/ /\ Connected
     /\ \E id \in MsgIds, body \in Bodies, hasMedia \in BOOLEAN :
          MessageArrive(id, body, hasMedia, FALSE)
  \/ \E id \in MsgIds : MsgLookup(id, "none")
  \/ \E id \in MsgIds, dl \in DownloadOutcomes : MsgDownloaded(id, dl, "none")
  \/ /\ Connected
     /\ \E id \in MsgIds, body \in Bodies, fromMe \in BOOLEAN :
          MessageCreateArrive(id, body, fromMe)
  \/ \E id \in MsgIds : CreateLookup(id, "none")
  \/ /\ Connected /\ revokes = <<>>
     /\ \E afterId \in MsgIds, hasBefore \in BOOLEAN :
          \E beforeId \in BeforeIds(afterId) \cup {NoVal}, beforeBody \in Bodies \cup {NoVal} :
            RevokeArrive(afterId, hasBefore, beforeId, beforeBody)
  \/ Reconcile
  \/ \E k \in 1..Len(revokes) : RevokeMediaSent(k)

Spec == Init /\ [][Next]_vars

\* The gates of the revoke handler: revoke events of any id at any time,
\* before, while and after the ready handler runs, any number of them in
\* progress at once.
NextGate ==
  \/ Background
  \/ \E afterId \in Ids, hasBefore \in BOOLEAN :
       \E beforeId \in BeforeIds(afterId) \cup {NoVal}, beforeBody \in Bodies \cup {NoVal} :
         RevokeArrive(afterId, hasBefore, beforeId, beforeBody)
  \/ Reconcile

SpecGate == Init /\ [][NextGate]_vars

\* The gates under revoke events whose two references need not name the
\* same id: any after-reference with any before-reference.
NextViews ==
  \/ Tick
  \/ \E t \in timers : DedupExpire(t)
  \/ \E afterId \in Ids, hasBefore \in BOOLEAN, beforeId \in Ids \cup {NoVal},
        beforeBody \in Bodies \cup {NoVal} :
       RevokeArrive(afterId, hasBefore, beforeId, beforeBody)
  \/ Reconcile

SpecViews == Init /\ [][NextViews]_vars

\* The cache under any calls of cacheMessage and removals, and its timers.
NextCache ==
  \/ Tick
  \/ \E t \in timers : CacheExpire(t)
  \/ \E id \in CacheIds : CachePut(id)
  \/ \E id \in CacheIds : CacheRemove(id)

SpecCache == Init /\ [][NextCache]_vars

\* The message handler on its own: a message with or without media, flagged
\* view-once or not, with lookups and file operations that fail, the expiry
\* timers, and no revoke.
NextViewOnce ==
  \/ Tick
  \/ \E t \in timers : CacheExpire(t)
  \/ \E t \in timers : MediaExpire(t)
  \/ \E t \in timers : MsgFileExpire(t)
  \/ \E id \in MsgIds, body \in Bodies, hasMedia, viewOnce \in BOOLEAN :
       MessageArrive(id, body, hasMedia, viewOnce)
  \/ \E id \in MsgIds, fault \in Faults : MsgLookup(id, fault)
  \/ \E id \in MsgIds, dl \in DownloadOutcomes, fault \in Faults :
       MsgDownloaded(id, dl, fault)
  \/ \E id \in MsgIds, fault \in Faults : MsgVoNotified(id, fault)
  \/ \E id \in MsgIds, fault \in Faults : MsgVoSent(id, fault)

SpecViewOnce == Init /\ [][NextViewOnce]_vars

\* The same under the scheduling of the event loop: the clock advances and
\* a due timer callback runs.
SpecRetention ==
  /\ SpecViewOnce
  /\ WF_vars(Tick)
  /\ WF_vars(\E t \in timers : CacheExpire(t))
  /\ WF_vars(\E t \in timers : MediaExpire(t))
  /\ WF_vars(\E t \in timers : MsgFileExpire(t))

\* The two attaches and their expiry timers, in any order on two ids.
NextTracker ==
  \/ Tick
  \/ \E t \in timers : MediaExpire(t)
  \/ \E t \in timers : MsgFileExpire(t)
  \/ \E id \in Ids : SaveMediaToTemp(id)
  \/ \E id \in Ids : SaveTranscript(id)

SpecTracker == Init /\ [][NextTracker]_vars

\* Every map with its timers: puts (a message is cached once), attaches and
\* marks, the removals the revoke handler makes without cancelling a timer,
\* and the four expiry callbacks.
NextExpiry ==
  \/ Tick
  \/ \E t \in timers : CacheExpire(t)
  \/ \E t \in timers : DedupExpire(t)
  \/ \E t \in timers : MediaExpire(t)
  \/ \E t \in timers : MsgFileExpire(t)
  \/ \E id \in Ids : (\A k \in 1..Len(putLog) : putLog[k] # id) /\ CachePut(id)
  \/ \E id \in Ids : CacheRemove(id)
  \/ \E id \in MsgIds : SaveMediaToTemp(id)
  \/ \E id \in MsgIds : SaveTranscript(id)
  \/ \E id \in MsgIds : RenameCached(id)
  \/ \E id \in MsgIds : MarkProcessed(id)

SpecExpiry == Init /\ [][NextExpiry]_vars

\* What reaches the saved directory and what deletes files: the message
\* handler with its view-once copy, the two promotions (which cancel timers
\* or not), the timers and the startup cleanup.
NextSaved ==
  \/ NextViewOnce
  \/ \E id \in MsgIds, ok \in BOOLEAN : PromoteTracked(id, ok)
  \/ \E id \in MsgIds : RenameCached(id)
  \/ \E old \in SUBSET Files : StartupCleanup(old)

SpecSaved == Init /\ [][NextSaved]_vars

\* The program after ready on a running event loop: the clock advances, due
\* callbacks run and every handler that was started runs on to its end;
\* events arrive or not.
SpecLive ==
  /\ Spec
  /\ WF_vars(Tick)
  /\ WF_vars(ReadyNotified)
  /\ WF_vars(\E t \in timers : DedupExpire(t))
  /\ WF_vars(\E t \in timers : CacheExpire(t))
  /\ WF_vars(\E t \in timers : MediaExpire(t))
  /\ WF_vars(\E t \in timers : MsgFileExpire(t))
  /\ WF_vars(\E id \in MsgIds : MsgLookup(id, "none"))
  /\ WF_vars(\E id \in MsgIds, dl \in DownloadOutcomes : MsgDownloaded(id, dl, "none"))
  /\ WF_vars(\E id \in MsgIds : CreateLookup(id, "none"))
  /\ WF_vars(Reconcile)
  /\ WF_vars(\E k \in 1..Len(revokes) : RevokeMediaSent(k))

\* A shutdown signal at any moment of the message handler and of the timers:
\* the program runs on while client.destroy() is awaited, and stops at
\* process.exit.
NextShutdown ==
  \/ ShutdownArrive
  \/ ShutdownExit
  \/ Running /\ Tick
  \/ Running /\ \E t \in timers : CacheExpire(t)
  \/ Running /\ \E t \in timers : MediaExpire(t)
  \/ Running /\ \E t \in timers : MsgFileExpire(t)
  \/ Running /\ \E id \in MsgIds, body \in Bodies, hasMedia, viewOnce \in BOOLEAN :
                  MessageArrive(id, body, hasMedia, viewOnce)
  \/ Running /\ \E id \in MsgIds, fault \in Faults : MsgLookup(id, fault)
  \/ Running /\ \E id \in MsgIds, dl \in DownloadOutcomes, fault \in Faults :
                  MsgDownloaded(id, dl, fault)
  \/ Running /\ \E id \in MsgIds, fault \in Faults : MsgVoNotified(id, fault)
  \/ Running /\ \E id \in MsgIds, fault \in Faults : MsgVoSent(id, fault)

SpecShutdown == Init /\ [][NextShutdown]_vars

\* sendPushNotification on its own: one call per call site, every outcome
\* of its fetches and of res.text().
NextNotify ==
  \/ \E c \in CallSites : NotifyStart(c)
  \/ \E c \in CallSites, out \in FetchOutcomes : NotifyFirst(c, out)
  \/ \E c \in CallSites, out \in FetchOutcomes : NotifySecond(c, out)
  \/ \E c \in CallSites, ok \in BOOLEAN : NotifyText(c, ok)

SpecNotify == Init /\ [][NextNotify]_vars

\* The field merge of the revoke handler on its own.
NextResolve ==
  \E hasBefore \in BOOLEAN, chat \in Chats \cup {Rejected},
     contact \in Contacts \cup {Rejected}, beforeBody \in BeforeTexts \cup {NoVal},
     cached \in Snapshots :
    Resolve(hasBefore, chat, contact, beforeBody, cached)

SpecResolve == Init /\ [][NextResolve]_vars

\* uploadMediaToGridFS at its three call sites, with every outcome of the
\* storage check and of the upload stream.
NextUpload ==
  \/ \E s \in UploadSites : UploadCall(s)
  \/ \E s \in UploadSites, out \in StorageOutcomes : StorageChecked(s, out)
  \/ \E s \in UploadSites, out \in StreamOutcomes : Streamed(s, out)
  \/ \E s \in UploadSites : UploadRest(s)

SpecUpload == Init /\ [][NextUpload]_vars

\* The polling loop on any sequence of updates, of any chat.
NextPoll == \E u \in Updates : TgUpdate(u)

SpecPoll == Init /\ [][NextPoll]_vars

\* saveMediaToTemp on any download, with the clock and the expiry timer.
NextSaveMedia ==
  \/ Tick
  \/ \E t \in timers : MediaExpire(t)
  \/ \E id \in Ids, hasMedia, writeOk \in BOOLEAN, media \in Downloads :
       SaveMediaCall(id, hasMedia, media, writeOk)

SpecSaveMedia == Init /\ [][NextSaveMedia]_vars

\* ------------------------------------------------------------ the claims
\* The revoke handler invocations in progress.
InFlight == {revokes[k] : k \in 1..Len(revokes)}

\* Past its lookups, on the path that saved a record and notified.
Reported(tk) == tk.pc \in {"notify", "sendMedia"}

\* C1: revoke events of one after-reference id delivered within the dedup TTL
\* pass the gates at most once (an event is let through only when the last
\* one let through for its id is at least the TTL old), and every event let
\* through leads to at most one notification and one DeletedRecord.
C1_DedupWithinTtl ==
  [][\A a \in Ids :
       /\ passes'[a] > passes[a] => sincePass[a] >= REVOKE_DEDUP_TTL_MS
       /\ notified'[a] <= passes'[a]
       /\ persisted'[a] <= passes'[a]]_vars

\* A second delivery was rejected within the TTL of the first, which has
\* notified and saved its record.
C1_Witness ==
  \E a \in Ids :
    /\ lastGate = [id |-> a, outcome |-> "dup", again |-> FALSE]
    /\ sincePass[a] < REVOKE_DEDUP_TTL_MS
    /\ passes[a] = 1 /\ notified[a] = 1 /\ persisted[a] = 1

\* C2: a revoke event that arrives before the ready handler has returned, or
\* less than the grace period after it, has no effect: no notification, no
\* DeletedRecord, no file moved.
C2_NoEffectBeforeGrace ==
  \A tk \in InFlight :
    tk.early => tk.notif = NoNotif /\ tk.record = NoRecord /\ tk.fileOps = {}

\* b is part of the text s (on the texts of the model).
Contains(s, b) == b = "" \/ s = b

\* The case of C3: the message handler of the id has returned, its media is
\* tracked with the file in temp and its transcript is tracked when the
\* revoke handler reads the tracker, the revoke came after the grace period
\* with a before-reference, and no operation of the handler failed.
C3_Case(tk) ==
  /\ Reported(tk) /\ ~tk.early /\ tk.hasBefore /\ tk.settled /\ tk.threw = NoVal
  /\ tk.tracked.filePath # NoVal /\ tk.mediaInTemp
  /\ tk.tracked.msgFilePath # NoVal

\* What C3 promises but for the DeletedRecord, at the step the handler returns.
C3_Outcome(tk) ==
  /\ Contains(tk.notif.message, tk.beforeBody)
  /\ tk.tracked.filePath \in savedFiles'
  /\ tk.tracked.filePath \notin tempFiles'
  /\ ~CacheHas(messageCache', tk.msgId)
  /\ mediaTracker'[tk.msgId] = NoRec

\* The step in which invocation k of the revoke handler returns.
Returns(k) == k \in 1..Len(revokes) /\ revokes' = RemoveAt(revokes, k)

C4_Case(tk) ==
  /\ Reported(tk) /\ ~tk.early /\ ~tk.hasBefore /\ tk.cached # NoEntry
  /\ tk.tracked.filePath = NoVal

\* C4: in its case the sender name, the sender number and the body of the
\* notification and of the DeletedRecord are the snapshot's, and none of
\* them is an "Unknown" placeholder.
C4_CacheFallback ==
  \A tk \in InFlight :
    C4_Case(tk) =>
      /\ tk.notif.who = tk.cached.senderName
      /\ tk.notif.number = tk.cached.senderNumber
      /\ tk.notif.message = tk.cached.body
      /\ tk.record # NoRecord =>
           /\ tk.record.senderName = tk.cached.senderName
           /\ tk.record.senderNumber = tk.cached.senderNumber
           /\ tk.record.originalMessage = tk.cached.body
      /\ {tk.notif.who, tk.notif.number, tk.notif.message}
           \cap {UNKNOWN, UNKNOWN_TEXT} = {}

\* A revoke without before-reference has been reported from the snapshot of
\* a text-only message, its record saved.
C4_Witness ==
  \E tk \in InFlight :
    /\ C4_Case(tk) /\ tk.record # NoRecord
    /\ tk.record.senderName = "Alice" /\ tk.record.originalMessage \in {"hello", EMPTY_MARK}

\* C5: over all revoke deliveries of an id, at most one DeletedRecord is
\* saved and each of its files is moved to saved at most once.
C5_AtMostOneRecord ==
  /\ \A a \in Ids : persisted[a] <= 1
  /\ \A f \in Files : renames[f] <= 1

\* C6: messageCache never holds more than MAX_CACHE_SIZE entries.
C6_Bounded == Len(messageCache) <= MAX_CACHE_SIZE

\* An entry has been evicted for capacity and the cache is full.
C6_Witness == evictLog # {} /\ Len(messageCache) = MAX_CACHE_SIZE

\* The position of the latest cacheMessage call for an id, 0 when there is none.
LatestPut(id) ==
  IF \E k \in 1..Len(putLog) : putLog[k] = id
    THEN CHOOSE k \in 1..Len(putLog) :
           putLog[k] = id /\ \A j \in (k + 1)..Len(putLog) : putLog[j] # id
    ELSE 0

\* The ids put so far, and those of them whose latest put is among the
\* MAX_CACHE_SIZE most recent.
PutIds == {putLog[k] : k \in 1..Len(putLog)}
MostRecentlyPut ==
  {i \in PutIds :
     Cardinality({j \in PutIds : LatestPut(j) > LatestPut(i)}) < MAX_CACHE_SIZE}

\* C7: as long as no expiry has fired and nothing was removed, messageCache
\* holds exactly the ids whose latest put is among the most recent.
C7_MostRecentSurvive ==
  (expireLog = {} /\ removeLog = {}) => CacheKeys(messageCache) = MostRecentlyPut

\* C8: no entry is in messageCache later than the retention window after
\* the cacheMessage call that wrote it.
C8_Expires ==
  \A k \in 1..Len(messageCache) : messageCache[k].age <= MESSAGE_CACHE_TTL_MS

\* An entry that was never removed explicitly is gone by its expiry callback.
C8_Witness ==
  \E id \in expireLog : id \notin removeLog /\ ~CacheHas(messageCache, id)

\* A revoke event of id a is delivered.
Delivery(a) ==
  \E hasBefore \in BOOLEAN, beforeId \in Ids \cup {NoVal},
     beforeBody \in Bodies \cup {NoVal} :
    RevokeArrive(a, hasBefore, beforeId, beforeBody)

\* C9: outside the grace period, a delivery of an id that is not marked is
\* let through and marks the id; a delivery of a marked id is rejected; an
\* id stays marked for the TTL after a delivery was let through, and is
\* unmarked by the timer callback.
C9_Gate ==
  [][/\ \A a \in Ids :
         (Delivery(a) /\ ~InGrace(sinceReady)) =>
            /\ a \notin processedRevokes =>
                 /\ passes'[a] = passes[a] + 1
                 /\ Len(revokes') = Len(revokes) + 1
                 /\ a \in processedRevokes'
            /\ a \in processedRevokes => passes' = passes /\ revokes' = revokes
            /\ sincePass[a] < REVOKE_DEDUP_TTL_MS => a \in processedRevokes
     /\ \A t \in timers : DedupExpire(t) => t.id \notin processedRevokes']_vars

\* A delivery has been let through after an earlier one of the same id.
C9_Witness ==
  /\ lastGate.outcome = "pass" /\ lastGate.again
  /\ passes[lastGate.id] = 2 /\ lastGate.id \in processedRevokes

\* C10: a reconciliation that starts after one of the same id has run to its
\* end finds no tracker record and no snapshot, moves no file and reports
\* no media.
C10_SecondFindsNothing ==
  \A tk \in InFlight :
    (tk.pc # "lookup" /\ tk.second) =>
       /\ tk.tracked = NoRec /\ tk.cached = NoEntry
       /\ tk.fileOps = {} /\ tk.mediaRef = NoVal

\* A timer of the kind is pending for the id.
Pending(ts, kind, id) == \E t \in ts : t.kind = kind /\ t.id = id

C12_ViewOnceRecord ==
  \A id \in MsgIds :
    (msgTask[id].pc \in {"voNotify", "voSend"} /\ MediaFile(id) \in savedFiles)
      => persisted[id] >= 1

\* The exceptions that reach the catch of the handler's try.
Uncaught == {"renameMedia", "renameMsg", "append"}

\* The step of handler k in which the lookups and the side-effects run.
Reconciles(k) ==
  \E chatOk \in BOOLEAN, contactOk \in BOOLEAN, fail \in RevokeFailures :
    RevokeLookup(k, chatOk, contactOk, fail)

\* C13 as stated: whatever throws during the reconciliation (a lookup, a
\* rename, the log append, the persist), the fallback notification follows.
C13_AsStated ==
  [][\A k \in 1..Len(revokes) :
       \A chatOk \in BOOLEAN, contactOk \in BOOLEAN, fail \in RevokeFailures :
         (RevokeLookup(k, chatOk, contactOk, fail)
            /\ (~chatOk \/ ~contactOk \/ fail # "none"))
         => revokes'[k].pc = "fallback"]_vars

\* C13: no exception leaves the revoke handler.  An exception of a rename of
\* the promotion or of the log append is caught by the handler's catch and
\* the fallback notification "Message Deleted" is sent in place of the
\* detailed one; a failing lookup or persist is caught where it happens and
\* the handler goes on to the detailed notification; after the fallback
\* notification the handler returns.
C13_NeverEscapes ==
  [][/\ \A k \in 1..Len(revokes) : Reconciles(k) =>
          /\ revokes'[k].pc \in {"notify", "fallback"}
          /\ revokes'[k].pc = "fallback" <=> revokes'[k].threw \in Uncaught
          /\ revokes'[k].pc = "fallback" =>
               /\ revokes'[k].notif = [NoNotif EXCEPT !.title = "Message Deleted"]
               /\ notified'[revokes[k].id] = notified[revokes[k].id] + 1
          /\ revokes'[k].pc = "notify" => revokes'[k].notif.title = "Deleted by"
     /\ \A k \in 1..Len(revokes) : RevokeFallbackNotified(k) =>
          Len(revokes') = Len(revokes) - 1
     /\ \A k \in 1..Len(revokes') : revokes'[k].pc # "escaped"]_vars

\* A handler whose log append threw is at its fallback notification.
C13_Witness ==
  \E tk \in InFlight : tk.pc = "fallback" /\ tk.threw = "append"

\* C14: in the revoke handler a failing side-effect (a promotion rename, the
\* log append, the persist) does not keep the others from being attempted:
\* unless the persist itself fails the DeletedRecord is saved, and the
\* detailed deletion notification is sent in every case.
C14_Independent ==
  [][\A k \in 1..Len(revokes) :
       \A chatOk \in BOOLEAN, contactOk \in BOOLEAN, fail \in RevokeFailures :
         RevokeLookup(k, chatOk, contactOk, fail) =>
           /\ fail # "persist" =>
                /\ revokes'[k].record # NoRecord
                /\ persisted'[revokes[k].id] = persisted[revokes[k].id] + 1
           /\ revokes'[k].notif.title = "Deleted by"]_vars

\* C15: each attach sets only its own slot of the tracker record; the path
\* and the timer handle of the other slot are the same before and after.
C15_OwnSlotOnly ==
  [][\A id \in Ids :
       /\ SaveMediaToTemp(id) =>
            /\ mediaTracker'[id].msgFilePath = mediaTracker[id].msgFilePath
            /\ mediaTracker'[id].msgFileTimeout = mediaTracker[id].msgFileTimeout
       /\ SaveTranscript(id) =>
            /\ mediaTracker'[id].filePath = mediaTracker[id].filePath
            /\ mediaTracker'[id].timeout = mediaTracker[id].timeout]_vars

\* A tracker record without its media slot, without its transcript slot.
ClearMedia(rec) == [rec EXCEPT !.filePath = NoVal, !.timeout = NoHandle]
ClearTranscript(rec) == [rec EXCEPT !.msgFilePath = NoVal, !.msgFileTimeout = NoHandle]

\* C16: an expiry timer that fires unlinks its own temp file and clears its
\* own slot of the tracker record, leaving the other slot as it was.
C16_ExpiryOwnSlot ==
  [][\A t \in timers :
       /\ MediaExpire(t) =>
            /\ MediaFile(t.id) \notin tempFiles'
            /\ mediaTracker'[t.id] = ClearMedia(mediaTracker[t.id])
       /\ MsgFileExpire(t) =>
            /\ MsgFile(t.id) \notin tempFiles'
            /\ mediaTracker'[t.id] = ClearTranscript(mediaTracker[t.id])]_vars

\* C17: shutdown cancels every pending timer, and from the moment shutdown
\* has started no expiry callback runs and the cache, the tracker and the
\* files stay as they are.
C17_ShutdownCancels ==
  [][/\ ShutdownArrive => timers' = {}
     /\ shutdownTask # "idle" =>
          /\ \A t \in timers :
               ~CacheExpire(t) /\ ~MediaExpire(t) /\ ~MsgFileExpire(t)
          /\ CacheKeys(messageCache') = CacheKeys(messageCache)
          /\ UNCHANGED <<mediaTracker, tempFiles, savedFiles>>]_vars

\* C18: sendPushNotification never throws, whatever its fetches and
\* res.text() do; it makes at most two send attempts, and the second only
\* when the first response was not ok.
C18_NeverThrows ==
  \A c \in CallSites :
    /\ calls[c].pc # "threw"
    /\ calls[c].attempts <= 2
    /\ calls[c].attempts = 2 => calls[c].first = "notOk"
    /\ calls[c].pc = "returned" => calls[c].attempts >= 1
    /\ calls[c].first = "rejects" => calls[c].pc = "returned" /\ calls[c].attempts = 1
    /\ calls[c].logged = "sent" <=>
         calls[c].pc = "returned" /\ calls[c].logged \notin {"error", "apiError"}

\* A call has returned after its plain-text retry, another after a rejected
\* first fetch.
C18_Witness ==
  /\ \E c \in CallSites :
       calls[c].pc = "returned" /\ calls[c].attempts = 2 /\ calls[c].first = "notOk"
  /\ \E c \in CallSites :
       calls[c].pc = "returned" /\ calls[c].first = "rejects"

\* The number of message, message_create and revoke handlers in progress.
InProgress ==
  Cardinality({id \in MsgIds : msgTask[id].pc \notin {"idle", "done"}})
    + Cardinality({id \in MsgIds : createTask[id] = "lookup"})
    + Len(revokes)

\* C19: no two event handlers are in progress at the same time.
C19_OneAtATime == InProgress <= 1

\* C20: a revoke handler of a message whose message event was delivered
\* before has read the cache and the tracker only after the message handler
\* had finished recording the snapshot and the artifacts, and nothing is
\* tracked for an id once its revoke has been reconciled.
C20_ReadsAfterRecorded ==
  /\ \A tk \in InFlight :
       (tk.pc # "lookup" /\ tk.msgId \in MsgIds /\ msgTask[tk.msgId].pc # "idle")
         => tk.settled
  /\ \A id \in MsgIds : reconciled[id] => mediaTracker[id] = NoRec

\* C21: within the dedup TTL a message is reconciled at most once, also when
\* the revoke deliveries that resolve to it carry different after-reference
\* ids: no two handlers let through within the TTL under different
\* after-reference ids reconcile the same id.
C21_OncePerMessage ==
  \A j, k \in 1..Len(revokes) :
    (/\ revokes[j].id # revokes[k].id
     /\ RevokeMsgId(revokes[j]) = RevokeMsgId(revokes[k]))
    => ~(/\ sincePass[revokes[j].id] < REVOKE_DEDUP_TTL_MS
         /\ sincePass[revokes[k].id] < REVOKE_DEDUP_TTL_MS)

\* C22: when the revoke handler promotes artifacts of an id, through the
\* tracker record or through the cached msgFilePath, no media or transcript
\* expiry timer of that id is pending afterwards.
C22_PromotionCancels ==
  [][\A k \in 1..Len(revokes) :
       (Reconciles(k) /\ revokes'[k].fileOps # {}) =>
         \A t \in timers' :
           ~(t.id = revokes'[k].msgId /\ t.kind \in {"media", "msgfile"})]_vars

C24_GoneMediaAbsent ==
  [][\A k \in 1..Len(revokes) :
       \A chatOk \in BOOLEAN, contactOk \in BOOLEAN :
         (/\ RevokeLookup(k, chatOk, contactOk, "none")
          /\ revokes'[k].tracked # NoRec
          /\ revokes'[k].tracked.filePath # NoVal
          /\ ~revokes'[k].mediaInTemp)
         => /\ revokes'[k].pc = "notify"
            /\ revokes'[k].mediaRef = NoVal
            /\ revokes'[k].record.mediaFilename = NoVal]_vars

\* The before-reference yielded a contact with a name and a number, and a
\* body.
Yielded(r) ==
  /\ r.hasBefore /\ r.contact # Rejected
  /\ SenderNameOf(r.contact) # NoVal /\ r.contact.number # NoVal
  /\ r.beforeBody # ""

\* C25: when the before-reference yields a contact and a body, the reported
\* sender name, sender number and body are those of the before-reference,
\* whatever the cached snapshot holds.
C25_BeforeFirst ==
  (resolved.called /\ Yielded(resolved)) =>
    /\ resolved.out.senderName = SenderNameOf(resolved.contact)
    /\ resolved.out.senderNumber = resolved.contact.number
    /\ resolved.out.originalText = resolved.beforeBody

\* C26: no reported field is undefined or empty, and a field that neither
\* the before-reference nor the cached snapshot resolved carries its marker.
C26_NeverUndefined ==
  resolved.called =>
    /\ \A f \in {"senderName", "senderNumber", "originalText", "chatLocation"} :
         resolved.out[f] \notin {NoVal, ""}
    /\ (~resolved.hasBefore /\ resolved.cached = NoEntry) =>
         /\ resolved.out.senderName = UNKNOWN
         /\ resolved.out.senderNumber = UNKNOWN
         /\ resolved.out.originalText = UNKNOWN_TEXT
    /\ (resolved.chat = Rejected /\ resolved.cached = NoEntry) =>
         resolved.out.chatLocation = UNKNOWN_CHAT

\* The chat location by the three rules: the after-reference's chat, else
\* the cached snapshot's location, else "Unknown Chat".
LocationRule(r, loc) ==
  /\ r.chat # Rejected => loc = ChatLocationOf(r.chat)
  /\ (r.chat = Rejected /\ r.cached # NoEntry) => loc = r.cached.chatLocation
  /\ (r.chat = Rejected /\ r.cached = NoEntry) => loc = UNKNOWN_CHAT

\* C27: the chat location follows the three rules, and a failing location
\* lookup does not abort the reconciliation, in either handler.
C27_Location ==
  resolved.called =>
    /\ LocationRule(resolved, resolved.out.chatLocation)
    /\ (resolved.hasBefore => resolved.contact # Rejected) =>
         /\ ~resolved.index.aborted
         /\ LocationRule([resolved EXCEPT !.cached = NoEntry],
                         resolved.index.chatLocation)

\* C28: a revoke discarded by the startup grace gate leaves processedRevokes,
\* the cache, the tracker, the timers, the files and the handlers in
\* progress as they were, and a revoke of an id that no delivery has passed
\* the gates for is let through once the grace period is over, whatever was
\* discarded before.
C28_GraceLeavesNoTrace ==
  [][\A afterId \in Ids, hasBefore \in BOOLEAN :
       \A beforeId \in BeforeIds(afterId) \cup {NoVal}, beforeBody \in Bodies \cup {NoVal} :
         RevokeArrive(afterId, hasBefore, beforeId, beforeBody) =>
           /\ lastGate'.outcome = "grace" =>
                UNCHANGED <<processedRevokes, messageCache, mediaTracker, timers,
                            tempFiles, savedFiles, revokes, persisted, notified>>
           /\ (~InGrace(sinceReady) /\ passes[afterId] = 0) =>
                /\ lastGate'.outcome = "pass"
                /\ Len(revokes') = Len(revokes) + 1
                /\ afterId \in processedRevokes']_vars

\* The grace period is over, the last revoke was discarded by the grace
\* gate, and nothing is marked.
C28_Witness ==
  /\ lastGate.outcome = "grace" /\ lastGate.id = "m1"
  /\ ~InGrace(sinceReady) /\ readyTask = "done"
  /\ passes["m1"] = 0 /\ "m1" \notin processedRevokes

\* The position of an effect in a handler's sequence of effects, 0 when it
\* is not there.
At(effects, e) ==
  IF \E i \in 1..Len(effects) : effects[i] = e
    THEN CHOOSE i \in 1..Len(effects) : effects[i] = e
    ELSE 0

Before(effects, a, b) == At(effects, a) # 0 /\ At(effects, b) # 0 => At(effects, a) < At(effects, b)

\* A step of revoke handler k.
RevokeStep(k) ==
  Reconciles(k) \/ RevokeNotified(k) \/ RevokeMediaSent(k) \/ RevokeFallbackNotified(k)

Stale(t) ==
  CASE t.kind = "cache" -> ~CacheHas(messageCache, t.id)
    [] t.kind = "dedup" -> t.id \notin processedRevokes
    [] t.kind = "media" -> mediaTracker[t.id] = NoRec /\ MediaFile(t.id) \notin tempFiles
    [] t.kind = "msgfile" -> mediaTracker[t.id] = NoRec /\ MsgFile(t.id) \notin tempFiles

Expire(t) == CacheExpire(t) \/ DedupExpire(t) \/ MediaExpire(t) \/ MsgFileExpire(t)

\* C30: an expiry callback (cache, dedup, media, transcript) that fires when
\* its key is no longer in its map and its file no longer in temp consumes
\* its timer and changes nothing else: the cache, the tracker, the processed
\* ids, the files and the handlers stay as they are, and no error is raised.
C30_StaleExpiryInert ==
  [][\A t \in timers :
       (Stale(t) /\ Expire(t)) =>
          /\ timers' = timers \ {t}
          /\ UNCHANGED <<sinceReady, messageCache, mediaTracker, processedRevokes,
                         tempFiles, savedFiles, handlers, faults, revokeLogs,
                         cacheLogs>>]_vars

\* A cache timer and a transcript timer are due, the key of the one removed
\* and the file of the other promoted, while the cache holds another entry.
C30_Witness ==
  /\ \E t \in timers : t.kind = "cache" /\ t.left = 0 /\ Stale(t)
  /\ \E t \in timers : t.kind = "msgfile" /\ t.left = 0 /\ Stale(t)
  /\ messageCache # <<>>
  /\ savedFiles # {}

\* C31: uploadMediaToGridFS never rejects: past the storage limit, with a
\* storage check that fails and with an upload stream that reports an error
\* it returns null, and the calling handler goes on with its remaining steps.
C31_UploadNeverRejects ==
  \A s \in UploadSites :
    /\ ~uploads[s].rejected
    /\ (uploads[s].storage \in {"over", "fails"} \/ uploads[s].stream = "error") =>
         /\ uploads[s].fileId = NoVal
         /\ uploads[s].pc \in {"rest", "done"}

\* C32: a snapshot stays in messageCache for its whole retention window
\* unless it is evicted for capacity or removed explicitly: a cache expiry
\* callback only ever removes a snapshot whose own window has elapsed, never
\* a newer snapshot of the id of an earlier put.
C32_NoEarlyExpiry ==
  [][\A t \in timers :
       (CacheExpire(t) /\ CacheHas(messageCache, t.id)) =>
          CacheGet(messageCache, t.id).age >= MESSAGE_CACHE_TTL_MS]_vars

\* The pending cache expiry timers of an id.
CacheTimersOf(ts, id) == {t \in ts : t.kind = "cache" /\ t.id = id}

\* C33: the message_create backup never replaces a snapshot of the message
\* handler: a cached snapshot that carries a msgFilePath keeps it for as long
\* as the id stays in the cache, and an id never has more than one pending
\* cache expiry timer.
C33_BackupNeverReplaces ==
  [][\A id \in MsgIds :
       /\ (/\ CacheHas(messageCache, id)
           /\ CacheGet(messageCache, id).msgFilePath # NoVal
           /\ CacheHas(messageCache', id)) =>
            CacheGet(messageCache', id).msgFilePath = CacheGet(messageCache, id).msgFilePath
       /\ Cardinality(CacheTimersOf(timers', id)) <= 1]_vars

\* C34: every temp artifact eventually leaves the temp directory, promoted
\* or deleted, also when a reconciliation aborts after it cancelled the
\* artifact's timer; and a tracker record and a cached snapshot are
\* eventually gone as well.
C34_NothingLeftBehind ==
  /\ \A f \in Files : (f \in tempFiles) ~> (f \notin tempFiles)
  /\ \A id \in MsgIds :
       /\ (mediaTracker[id] # NoRec) ~> (mediaTracker[id] = NoRec)
       /\ CacheHas(messageCache, id) ~> ~CacheHas(messageCache, id)

\* C35: with no revoke, once the message handler of an id has returned and
\* the expiry timers of the id have fired, mediaTracker holds no record for
\* the id, whether the message had media or text only.
C35_TrackerDrained ==
  \A id \in MsgIds :
    (/\ msgTask[id].pc \in {"idle", "done"}
     /\ ~Pending(timers, "media", id)
     /\ ~Pending(timers, "msgfile", id)) =>
       mediaTracker[id] = NoRec

\* C36: no file of the saved directory is ever deleted, by an expiry timer,
\* by the startup cleanup or by anything else: what was promoted or copied
\* there stays, also when a timer of the same id fires later.
C36_SavedStays == [][savedFiles \subseteq savedFiles']_vars

\* The transcript of m1 was promoted without cancelling its timer, which is
\* due now, next to the view-once copy of its media.
C36_Witness ==
  /\ savedFiles = {"m1.jpg", "m1.txt"}
  /\ \E t \in timers : t.kind = "msgfile" /\ t.id = "m1" /\ t.left = 0

\* C37: cacheMessage for an id that is already in messageCache removes no
\* entry of any other id, also at full capacity.
C37_RePutKeepsOthers ==
  [][\A id \in CacheIds :
       (CachePut(id) /\ CacheHas(messageCache, id)) =>
          CacheKeys(messageCache) \subseteq CacheKeys(messageCache')]_vars

\* All of a polling loop's state but telegramUpdateOffset.
ButOffset(loop) == [clients |-> loop.clients, notes |-> loop.notes]

\* C38: an update of another chat than TELEGRAM_CHAT_ID only advances
\* telegramUpdateOffset: it starts no handleReauth and sends no notification,
\* and a run that receives such updates has the same clients and the same
\* notifications as the run that receives the authorized updates alone.
C38_UnauthorizedInert ==
  [][/\ ButOffset(telegram'.run) = ButOffset(telegram'.alone)
     /\ \A u \in Updates :
          (TgUpdate(u) /\ u.chat # 42) =>
             /\ ButOffset(telegram'.run) = ButOffset(telegram.run)
             /\ telegram'.run.offset = u.update_id + 1]_vars

\* The loop has run handleReauth and sent a status for the authorized chat,
\* and has moved its offset past updates the other loop never saw.
C38_Witness ==
  /\ telegram.run.notes = <<"reauth", "status">>
  /\ telegram.run.offset > telegram.alone.offset
  /\ telegram.alone.offset > 0

\* The decoded size of base64 data: three bytes for four characters, less
\* the padding.
DecodedSize(data) == 3 * (data.chars \div 4) - data.pad

\* The download returned data of at most the limit.
Downloaded(hasMedia, media) ==
  /\ hasMedia /\ media \in MediaData /\ media.chars > 0
  /\ DecodedSize(media) <= MAX_MEDIA_BYTES

\* What a call of saveMediaToTemp does when it keeps the media, and when not.
Keeps(id) ==
  /\ lastSave'.result = MediaFile(id)
  /\ MediaFile(id) \in tempFiles'
  /\ Pending(timers', "media", id)
  /\ mediaTracker'[id] = MediaRecord(id)

Declines ==
  /\ lastSave'.result = NoVal
  /\ UNCHANGED <<tempFiles, timers, mediaTracker>>

\* C39 as stated: saveMediaToTemp writes the temp file and sets the record
\* exactly when the download returned data of at most the limit, and else
\* returns null and touches nothing.
C39_AsStated ==
  [][\A id \in Ids, hasMedia, writeOk \in BOOLEAN, media \in Downloads :
       SaveMediaCall(id, hasMedia, media, writeOk) =>
         IF Downloaded(hasMedia, media) THEN Keeps(id) ELSE Declines]_vars

\* C39: saveMediaToTemp writes the temp file, schedules the timer and sets
\* the record exactly when the download returned data of at most the limit
\* and the temp write succeeds; else it returns null, writes no file,
\* schedules no timer and leaves mediaTracker as it was.
C39_SizeLimit ==
  [][\A id \in Ids, hasMedia, writeOk \in BOOLEAN, media \in Downloads :
       SaveMediaCall(id, hasMedia, media, writeOk) =>
         IF Downloaded(hasMedia, media) /\ writeOk THEN Keeps(id) ELSE Declines]_vars

\* Media of exactly the limit was kept for m1 and media one byte larger
\* was declined for m2.
C39_Witness ==
  /\ "m1.jpg" \in tempFiles /\ mediaTracker["m1"] = MediaRecord("m1")
  /\ lastSave.called /\ lastSave.id = "m2" /\ lastSave.hasMedia /\ lastSave.writeOk
  /\ lastSave.media \in MediaData /\ lastSave.media.chars > 0
  /\ DecodedSize(lastSave.media) = MAX_MEDIA_BYTES + 1
  /\ lastSave.result = NoVal /\ mediaTracker["m2"] = NoRec

\* The outputs whose wording part_002 changed: the log entry of a deleted
\* message, the caption of a view-once media message and the fallback
\* notification.
Reworded == {"revokeLog", "viewOnceCaption", "fallbackNotice"}

====
